---------------------------- MODULE Spec2Model ----------------------------
(***************************************************************************)
(* Model of the ffmpeg frame grabber (src/src/ffmpeg.rs, ffprobe.rs).      *)
(*                                                                         *)
(* Spec      the frame reader (next, get_next) against a decode subprocess *)
(*           of any behaviour, and the drop of the session;                *)
(* SpecProto the frame reader against a well-formed decode subprocess, and *)
(*           the drop of the session;                                      *)
(* SpecOpen  FFMpegVideo::open and FFProbeInfo::primary_video_stream;      *)
(* SpecParse the session, its subprocess writing lines for parse_showinfo; *)
(* SpecSize  the size of a frame's buffer for every u32 width and height.  *)
(*                                                                         *)
(* Text is a sequence of one-character strings; a character past U+00FF is *)
(* written <U+hhhh>, and the pseudo character BadByte stands for a byte    *)
(* that is not valid UTF-8.  Pixel bytes are tagged with their position in *)
(* the stream the decode subprocess writes: the reader never inspects a    *)
(* pixel byte, so a tag per position shows every skipped, repeated or      *)
(* reordered byte.  A line is written and read whole.                      *)
(***************************************************************************)
EXTENDS Integers, Sequences, FiniteSets, Bags, TLC

(***************************************************************************)
(* Bounds of the model.                                                    *)
(***************************************************************************)
MaxLines == 4        \* diagnostic lines the subprocess writes in one run
MaxBytes == 6        \* pixel bytes the subprocess writes in one run
DiagCap  == 2        \* capacity of the diagnostic pipe, in lines
BufCap   == 2        \* capacity of the BufReader on the diagnostic pipe, in lines
PixCap   == 2        \* capacity of the pixel pipe, in bytes
MaxFrames == 2       \* frames a well-formed subprocess decodes
MaxJunk  == 3        \* unrecognized lines a well-formed subprocess writes
MaxStreams == 2      \* streams in the output of the probing tool
MaxParseLines == 2   \* lines the subprocess of SpecParse writes in one run

(***************************************************************************)
(* Characters.                                                             *)
(***************************************************************************)
\* F of the value of x: the value is worked out first and once, as the
\* argument of a call is
Apply(F(_), x) == CHOOSE r \in {F(v) : v \in {x}} : TRUE

BadByte == "<FF>"

\* the decimal digits of f64::from_str and of a formatted integer, '0'..='9'
Digits == {"0", "1", "2", "3", "4", "5", "6", "7", "8", "9"}

\* The regex crate's \w is Unicode-aware: Alphabetic, Mark, Decimal_Number,
\* Connector_Punctuation and Join_Control.  The repository pins no version
\* of the crate; the class is taken from the Unicode 16.0 tables (those of
\* regex-syntax 0.8.5), 144667 characters.  WordRanges lists, by code point
\* and in increasing order, the ranges of it from U+0100 to the end of
\* plane 3 (U+0100..U+02C1 first, U+31350..U+323AF last).
WordRanges ==
  << <<256, 705>>, <<710, 721>>, <<736, 740>>, <<748, 748>>, <<750, 750>>,
     <<768, 884>>, <<886, 887>>, <<890, 893>>, <<895, 895>>, <<902, 902>>,
     <<904, 906>>, <<908, 908>>, <<910, 929>>, <<931, 1013>>,
     <<1015, 1153>>, <<1155, 1327>>, <<1329, 1366>>, <<1369, 1369>>,
     <<1376, 1416>>, <<1425, 1469>>, <<1471, 1471>>, <<1473, 1474>>,
     <<1476, 1477>>, <<1479, 1479>>, <<1488, 1514>>, <<1519, 1522>>,
     <<1552, 1562>>, <<1568, 1641>>, <<1646, 1747>>, <<1749, 1756>>,
     <<1759, 1768>>, <<1770, 1788>>, <<1791, 1791>>, <<1808, 1866>>,
     <<1869, 1969>>, <<1984, 2037>>, <<2042, 2042>>, <<2045, 2045>>,
     <<2048, 2093>>, <<2112, 2139>>, <<2144, 2154>>, <<2160, 2183>>,
     <<2185, 2190>>, <<2199, 2273>>, <<2275, 2403>>, <<2406, 2415>>,
     <<2417, 2435>>, <<2437, 2444>>, <<2447, 2448>>, <<2451, 2472>>,
     <<2474, 2480>>, <<2482, 2482>>, <<2486, 2489>>, <<2492, 2500>>,
     <<2503, 2504>>, <<2507, 2510>>, <<2519, 2519>>, <<2524, 2525>>,
     <<2527, 2531>>, <<2534, 2545>>, <<2556, 2556>>, <<2558, 2558>>,
     <<2561, 2563>>, <<2565, 2570>>, <<2575, 2576>>, <<2579, 2600>>,
     <<2602, 2608>>, <<2610, 2611>>, <<2613, 2614>>, <<2616, 2617>>,
     <<2620, 2620>>, <<2622, 2626>>, <<2631, 2632>>, <<2635, 2637>>,
     <<2641, 2641>>, <<2649, 2652>>, <<2654, 2654>>, <<2662, 2677>>,
     <<2689, 2691>>, <<2693, 2701>>, <<2703, 2705>>, <<2707, 2728>>,
     <<2730, 2736>>, <<2738, 2739>>, <<2741, 2745>>, <<2748, 2757>>,
     <<2759, 2761>>, <<2763, 2765>>, <<2768, 2768>>, <<2784, 2787>>,
     <<2790, 2799>>, <<2809, 2815>>, <<2817, 2819>>, <<2821, 2828>>,
     <<2831, 2832>>, <<2835, 2856>>, <<2858, 2864>>, <<2866, 2867>>,
     <<2869, 2873>>, <<2876, 2884>>, <<2887, 2888>>, <<2891, 2893>>,
     <<2901, 2903>>, <<2908, 2909>>, <<2911, 2915>>, <<2918, 2927>>,
     <<2929, 2929>>, <<2946, 2947>>, <<2949, 2954>>, <<2958, 2960>>,
     <<2962, 2965>>, <<2969, 2970>>, <<2972, 2972>>, <<2974, 2975>>,
     <<2979, 2980>>, <<2984, 2986>>, <<2990, 3001>>, <<3006, 3010>>,
     <<3014, 3016>>, <<3018, 3021>>, <<3024, 3024>>, <<3031, 3031>>,
     <<3046, 3055>>, <<3072, 3084>>, <<3086, 3088>>, <<3090, 3112>>,
     <<3114, 3129>>, <<3132, 3140>>, <<3142, 3144>>, <<3146, 3149>>,
     <<3157, 3158>>, <<3160, 3162>>, <<3165, 3165>>, <<3168, 3171>>,
     <<3174, 3183>>, <<3200, 3203>>, <<3205, 3212>>, <<3214, 3216>>,
     <<3218, 3240>>, <<3242, 3251>>, <<3253, 3257>>, <<3260, 3268>>,
     <<3270, 3272>>, <<3274, 3277>>, <<3285, 3286>>, <<3293, 3294>>,
     <<3296, 3299>>, <<3302, 3311>>, <<3313, 3315>>, <<3328, 3340>>,
     <<3342, 3344>>, <<3346, 3396>>, <<3398, 3400>>, <<3402, 3406>>,
     <<3412, 3415>>, <<3423, 3427>>, <<3430, 3439>>, <<3450, 3455>>,
     <<3457, 3459>>, <<3461, 3478>>, <<3482, 3505>>, <<3507, 3515>>,
     <<3517, 3517>>, <<3520, 3526>>, <<3530, 3530>>, <<3535, 3540>>,
     <<3542, 3542>>, <<3544, 3551>>, <<3558, 3567>>, <<3570, 3571>>,
     <<3585, 3642>>, <<3648, 3662>>, <<3664, 3673>>, <<3713, 3714>>,
     <<3716, 3716>>, <<3718, 3722>>, <<3724, 3747>>, <<3749, 3749>>,
     <<3751, 3773>>, <<3776, 3780>>, <<3782, 3782>>, <<3784, 3790>>,
     <<3792, 3801>>, <<3804, 3807>>, <<3840, 3840>>, <<3864, 3865>>,
     <<3872, 3881>>, <<3893, 3893>>, <<3895, 3895>>, <<3897, 3897>>,
     <<3902, 3911>>, <<3913, 3948>>, <<3953, 3972>>, <<3974, 3991>>,
     <<3993, 4028>>, <<4038, 4038>>, <<4096, 4169>>, <<4176, 4253>>,
     <<4256, 4293>>, <<4295, 4295>>, <<4301, 4301>>, <<4304, 4346>>,
     <<4348, 4680>>, <<4682, 4685>>, <<4688, 4694>>, <<4696, 4696>>,
     <<4698, 4701>>, <<4704, 4744>>, <<4746, 4749>>, <<4752, 4784>>,
     <<4786, 4789>>, <<4792, 4798>>, <<4800, 4800>>, <<4802, 4805>>,
     <<4808, 4822>>, <<4824, 4880>>, <<4882, 4885>>, <<4888, 4954>>,
     <<4957, 4959>>, <<4992, 5007>>, <<5024, 5109>>, <<5112, 5117>>,
     <<5121, 5740>>, <<5743, 5759>>, <<5761, 5786>>, <<5792, 5866>>,
     <<5870, 5880>>, <<5888, 5909>>, <<5919, 5940>>, <<5952, 5971>>,
     <<5984, 5996>>, <<5998, 6000>>, <<6002, 6003>>, <<6016, 6099>>,
     <<6103, 6103>>, <<6108, 6109>>, <<6112, 6121>>, <<6155, 6157>>,
     <<6159, 6169>>, <<6176, 6264>>, <<6272, 6314>>, <<6320, 6389>>,
     <<6400, 6430>>, <<6432, 6443>>, <<6448, 6459>>, <<6470, 6509>>,
     <<6512, 6516>>, <<6528, 6571>>, <<6576, 6601>>, <<6608, 6617>>,
     <<6656, 6683>>, <<6688, 6750>>, <<6752, 6780>>, <<6783, 6793>>,
     <<6800, 6809>>, <<6823, 6823>>, <<6832, 6862>>, <<6912, 6988>>,
     <<6992, 7001>>, <<7019, 7027>>, <<7040, 7155>>, <<7168, 7223>>,
     <<7232, 7241>>, <<7245, 7293>>, <<7296, 7306>>, <<7312, 7354>>,
     <<7357, 7359>>, <<7376, 7378>>, <<7380, 7418>>, <<7424, 7957>>,
     <<7960, 7965>>, <<7968, 8005>>, <<8008, 8013>>, <<8016, 8023>>,
     <<8025, 8025>>, <<8027, 8027>>, <<8029, 8029>>, <<8031, 8061>>,
     <<8064, 8116>>, <<8118, 8124>>, <<8126, 8126>>, <<8130, 8132>>,
     <<8134, 8140>>, <<8144, 8147>>, <<8150, 8155>>, <<8160, 8172>>,
     <<8178, 8180>>, <<8182, 8188>>, <<8204, 8205>>, <<8255, 8256>>,
     <<8276, 8276>>, <<8305, 8305>>, <<8319, 8319>>, <<8336, 8348>>,
     <<8400, 8432>>, <<8450, 8450>>, <<8455, 8455>>, <<8458, 8467>>,
     <<8469, 8469>>, <<8473, 8477>>, <<8484, 8484>>, <<8486, 8486>>,
     <<8488, 8488>>, <<8490, 8493>>, <<8495, 8505>>, <<8508, 8511>>,
     <<8517, 8521>>, <<8526, 8526>>, <<8544, 8584>>, <<9398, 9449>>,
     <<11264, 11492>>, <<11499, 11507>>, <<11520, 11557>>, <<11559, 11559>>,
     <<11565, 11565>>, <<11568, 11623>>, <<11631, 11631>>, <<11647, 11670>>,
     <<11680, 11686>>, <<11688, 11694>>, <<11696, 11702>>, <<11704, 11710>>,
     <<11712, 11718>>, <<11720, 11726>>, <<11728, 11734>>, <<11736, 11742>>,
     <<11744, 11775>>, <<11823, 11823>>, <<12293, 12295>>, <<12321, 12335>>,
     <<12337, 12341>>, <<12344, 12348>>, <<12353, 12438>>, <<12441, 12442>>,
     <<12445, 12447>>, <<12449, 12538>>, <<12540, 12543>>, <<12549, 12591>>,
     <<12593, 12686>>, <<12704, 12735>>, <<12784, 12799>>, <<13312, 19903>>,
     <<19968, 42124>>, <<42192, 42237>>, <<42240, 42508>>, <<42512, 42539>>,
     <<42560, 42610>>, <<42612, 42621>>, <<42623, 42737>>, <<42775, 42783>>,
     <<42786, 42888>>, <<42891, 42957>>, <<42960, 42961>>, <<42963, 42963>>,
     <<42965, 42972>>, <<42994, 43047>>, <<43052, 43052>>, <<43072, 43123>>,
     <<43136, 43205>>, <<43216, 43225>>, <<43232, 43255>>, <<43259, 43259>>,
     <<43261, 43309>>, <<43312, 43347>>, <<43360, 43388>>, <<43392, 43456>>,
     <<43471, 43481>>, <<43488, 43518>>, <<43520, 43574>>, <<43584, 43597>>,
     <<43600, 43609>>, <<43616, 43638>>, <<43642, 43714>>, <<43739, 43741>>,
     <<43744, 43759>>, <<43762, 43766>>, <<43777, 43782>>, <<43785, 43790>>,
     <<43793, 43798>>, <<43808, 43814>>, <<43816, 43822>>, <<43824, 43866>>,
     <<43868, 43881>>, <<43888, 44010>>, <<44012, 44013>>, <<44016, 44025>>,
     <<44032, 55203>>, <<55216, 55238>>, <<55243, 55291>>, <<63744, 64109>>,
     <<64112, 64217>>, <<64256, 64262>>, <<64275, 64279>>, <<64285, 64296>>,
     <<64298, 64310>>, <<64312, 64316>>, <<64318, 64318>>, <<64320, 64321>>,
     <<64323, 64324>>, <<64326, 64433>>, <<64467, 64829>>, <<64848, 64911>>,
     <<64914, 64967>>, <<65008, 65019>>, <<65024, 65039>>, <<65056, 65071>>,
     <<65075, 65076>>, <<65101, 65103>>, <<65136, 65140>>, <<65142, 65276>>,
     <<65296, 65305>>, <<65313, 65338>>, <<65343, 65343>>, <<65345, 65370>>,
     <<65382, 65470>>, <<65474, 65479>>, <<65482, 65487>>, <<65490, 65495>>,
     <<65498, 65500>>, <<65536, 65547>>, <<65549, 65574>>, <<65576, 65594>>,
     <<65596, 65597>>, <<65599, 65613>>, <<65616, 65629>>, <<65664, 65786>>,
     <<65856, 65908>>, <<66045, 66045>>, <<66176, 66204>>, <<66208, 66256>>,
     <<66272, 66272>>, <<66304, 66335>>, <<66349, 66378>>, <<66384, 66426>>,
     <<66432, 66461>>, <<66464, 66499>>, <<66504, 66511>>, <<66513, 66517>>,
     <<66560, 66717>>, <<66720, 66729>>, <<66736, 66771>>, <<66776, 66811>>,
     <<66816, 66855>>, <<66864, 66915>>, <<66928, 66938>>, <<66940, 66954>>,
     <<66956, 66962>>, <<66964, 66965>>, <<66967, 66977>>, <<66979, 66993>>,
     <<66995, 67001>>, <<67003, 67004>>, <<67008, 67059>>, <<67072, 67382>>,
     <<67392, 67413>>, <<67424, 67431>>, <<67456, 67461>>, <<67463, 67504>>,
     <<67506, 67514>>, <<67584, 67589>>, <<67592, 67592>>, <<67594, 67637>>,
     <<67639, 67640>>, <<67644, 67644>>, <<67647, 67669>>, <<67680, 67702>>,
     <<67712, 67742>>, <<67808, 67826>>, <<67828, 67829>>, <<67840, 67861>>,
     <<67872, 67897>>, <<67968, 68023>>, <<68030, 68031>>, <<68096, 68099>>,
     <<68101, 68102>>, <<68108, 68115>>, <<68117, 68119>>, <<68121, 68149>>,
     <<68152, 68154>>, <<68159, 68159>>, <<68192, 68220>>, <<68224, 68252>>,
     <<68288, 68295>>, <<68297, 68326>>, <<68352, 68405>>, <<68416, 68437>>,
     <<68448, 68466>>, <<68480, 68497>>, <<68608, 68680>>, <<68736, 68786>>,
     <<68800, 68850>>, <<68864, 68903>>, <<68912, 68921>>, <<68928, 68965>>,
     <<68969, 68973>>, <<68975, 68997>>, <<69248, 69289>>, <<69291, 69292>>,
     <<69296, 69297>>, <<69314, 69316>>, <<69372, 69404>>, <<69415, 69415>>,
     <<69424, 69456>>, <<69488, 69509>>, <<69552, 69572>>, <<69600, 69622>>,
     <<69632, 69702>>, <<69734, 69749>>, <<69759, 69818>>, <<69826, 69826>>,
     <<69840, 69864>>, <<69872, 69881>>, <<69888, 69940>>, <<69942, 69951>>,
     <<69956, 69959>>, <<69968, 70003>>, <<70006, 70006>>, <<70016, 70084>>,
     <<70089, 70092>>, <<70094, 70106>>, <<70108, 70108>>, <<70144, 70161>>,
     <<70163, 70199>>, <<70206, 70209>>, <<70272, 70278>>, <<70280, 70280>>,
     <<70282, 70285>>, <<70287, 70301>>, <<70303, 70312>>, <<70320, 70378>>,
     <<70384, 70393>>, <<70400, 70403>>, <<70405, 70412>>, <<70415, 70416>>,
     <<70419, 70440>>, <<70442, 70448>>, <<70450, 70451>>, <<70453, 70457>>,
     <<70459, 70468>>, <<70471, 70472>>, <<70475, 70477>>, <<70480, 70480>>,
     <<70487, 70487>>, <<70493, 70499>>, <<70502, 70508>>, <<70512, 70516>>,
     <<70528, 70537>>, <<70539, 70539>>, <<70542, 70542>>, <<70544, 70581>>,
     <<70583, 70592>>, <<70594, 70594>>, <<70597, 70597>>, <<70599, 70602>>,
     <<70604, 70611>>, <<70625, 70626>>, <<70656, 70730>>, <<70736, 70745>>,
     <<70750, 70753>>, <<70784, 70853>>, <<70855, 70855>>, <<70864, 70873>>,
     <<71040, 71093>>, <<71096, 71104>>, <<71128, 71133>>, <<71168, 71232>>,
     <<71236, 71236>>, <<71248, 71257>>, <<71296, 71352>>, <<71360, 71369>>,
     <<71376, 71395>>, <<71424, 71450>>, <<71453, 71467>>, <<71472, 71481>>,
     <<71488, 71494>>, <<71680, 71738>>, <<71840, 71913>>, <<71935, 71942>>,
     <<71945, 71945>>, <<71948, 71955>>, <<71957, 71958>>, <<71960, 71989>>,
     <<71991, 71992>>, <<71995, 72003>>, <<72016, 72025>>, <<72096, 72103>>,
     <<72106, 72151>>, <<72154, 72161>>, <<72163, 72164>>, <<72192, 72254>>,
     <<72263, 72263>>, <<72272, 72345>>, <<72349, 72349>>, <<72368, 72440>>,
     <<72640, 72672>>, <<72688, 72697>>, <<72704, 72712>>, <<72714, 72758>>,
     <<72760, 72768>>, <<72784, 72793>>, <<72818, 72847>>, <<72850, 72871>>,
     <<72873, 72886>>, <<72960, 72966>>, <<72968, 72969>>, <<72971, 73014>>,
     <<73018, 73018>>, <<73020, 73021>>, <<73023, 73031>>, <<73040, 73049>>,
     <<73056, 73061>>, <<73063, 73064>>, <<73066, 73102>>, <<73104, 73105>>,
     <<73107, 73112>>, <<73120, 73129>>, <<73440, 73462>>, <<73472, 73488>>,
     <<73490, 73530>>, <<73534, 73538>>, <<73552, 73562>>, <<73648, 73648>>,
     <<73728, 74649>>, <<74752, 74862>>, <<74880, 75075>>, <<77712, 77808>>,
     <<77824, 78895>>, <<78912, 78933>>, <<78944, 82938>>, <<82944, 83526>>,
     <<90368, 90425>>, <<92160, 92728>>, <<92736, 92766>>, <<92768, 92777>>,
     <<92784, 92862>>, <<92864, 92873>>, <<92880, 92909>>, <<92912, 92916>>,
     <<92928, 92982>>, <<92992, 92995>>, <<93008, 93017>>, <<93027, 93047>>,
     <<93053, 93071>>, <<93504, 93548>>, <<93552, 93561>>, <<93760, 93823>>,
     <<93952, 94026>>, <<94031, 94087>>, <<94095, 94111>>, <<94176, 94177>>,
     <<94179, 94180>>, <<94192, 94193>>, <<94208, 100343>>,
     <<100352, 101589>>, <<101631, 101640>>, <<110576, 110579>>,
     <<110581, 110587>>, <<110589, 110590>>, <<110592, 110882>>,
     <<110898, 110898>>, <<110928, 110930>>, <<110933, 110933>>,
     <<110948, 110951>>, <<110960, 111355>>, <<113664, 113770>>,
     <<113776, 113788>>, <<113792, 113800>>, <<113808, 113817>>,
     <<113821, 113822>>, <<118000, 118009>>, <<118528, 118573>>,
     <<118576, 118598>>, <<119141, 119145>>, <<119149, 119154>>,
     <<119163, 119170>>, <<119173, 119179>>, <<119210, 119213>>,
     <<119362, 119364>>, <<119808, 119892>>, <<119894, 119964>>,
     <<119966, 119967>>, <<119970, 119970>>, <<119973, 119974>>,
     <<119977, 119980>>, <<119982, 119993>>, <<119995, 119995>>,
     <<119997, 120003>>, <<120005, 120069>>, <<120071, 120074>>,
     <<120077, 120084>>, <<120086, 120092>>, <<120094, 120121>>,
     <<120123, 120126>>, <<120128, 120132>>, <<120134, 120134>>,
     <<120138, 120144>>, <<120146, 120485>>, <<120488, 120512>>,
     <<120514, 120538>>, <<120540, 120570>>, <<120572, 120596>>,
     <<120598, 120628>>, <<120630, 120654>>, <<120656, 120686>>,
     <<120688, 120712>>, <<120714, 120744>>, <<120746, 120770>>,
     <<120772, 120779>>, <<120782, 120831>>, <<121344, 121398>>,
     <<121403, 121452>>, <<121461, 121461>>, <<121476, 121476>>,
     <<121499, 121503>>, <<121505, 121519>>, <<122624, 122654>>,
     <<122661, 122666>>, <<122880, 122886>>, <<122888, 122904>>,
     <<122907, 122913>>, <<122915, 122916>>, <<122918, 122922>>,
     <<122928, 122989>>, <<123023, 123023>>, <<123136, 123180>>,
     <<123184, 123197>>, <<123200, 123209>>, <<123214, 123214>>,
     <<123536, 123566>>, <<123584, 123641>>, <<124112, 124153>>,
     <<124368, 124410>>, <<124896, 124902>>, <<124904, 124907>>,
     <<124909, 124910>>, <<124912, 124926>>, <<124928, 125124>>,
     <<125136, 125142>>, <<125184, 125259>>, <<125264, 125273>>,
     <<126464, 126467>>, <<126469, 126495>>, <<126497, 126498>>,
     <<126500, 126500>>, <<126503, 126503>>, <<126505, 126514>>,
     <<126516, 126519>>, <<126521, 126521>>, <<126523, 126523>>,
     <<126530, 126530>>, <<126535, 126535>>, <<126537, 126537>>,
     <<126539, 126539>>, <<126541, 126543>>, <<126545, 126546>>,
     <<126548, 126548>>, <<126551, 126551>>, <<126553, 126553>>,
     <<126555, 126555>>, <<126557, 126557>>, <<126559, 126559>>,
     <<126561, 126562>>, <<126564, 126564>>, <<126567, 126570>>,
     <<126572, 126578>>, <<126580, 126583>>, <<126585, 126588>>,
     <<126590, 126590>>, <<126592, 126601>>, <<126603, 126619>>,
     <<126625, 126627>>, <<126629, 126633>>, <<126635, 126651>>,
     <<127280, 127305>>, <<127312, 127337>>, <<127344, 127369>>,
     <<130032, 130041>>, <<131072, 173791>>, <<173824, 177977>>,
     <<177984, 178205>>, <<178208, 183969>>, <<183984, 191456>>,
     <<191472, 192093>>, <<194560, 195101>>, <<196608, 201546>>,
     <<201552, 205743>> >>

\* whether the code point n is in one of the ranges lo..hi of the table t
RECURSIVE InRanges(_, _, _, _)
InRanges(t, n, lo, hi) ==
  IF lo > hi THEN FALSE
  ELSE LET mid == (lo + hi) \div 2
       IN  IF n < t[mid][1] THEN InRanges(t, n, lo, mid - 1)
           ELSE IF n > t[mid][2] THEN InRanges(t, n, mid + 1, hi)
           ELSE TRUE

\* the character of code point n, past U+00FF: <U+hhhh>, in upper-case
\* hexadecimal digits, four of them or, from U+10000 on, five
WideChar(n) ==
  LET h(p) == <<"0", "1", "2", "3", "4", "5", "6", "7", "8", "9",
                "A", "B", "C", "D", "E", "F">>[((n \div p) % 16) + 1]
  IN  "<U+" \o (IF n >= 65536 THEN h(65536) ELSE "")
            \o h(4096) \o h(256) \o h(16) \o h(1) \o ">"

\* every character of \w: up to U+00FF the letters of ASCII and of
\* U+0080..U+00FF, the digits and the underscore; past it the characters of
\* WordRanges and the variation selectors U+E0100..U+E01EF (marks), the only
\* ones past plane 3
WordChars ==
  {"a", "b", "c", "d", "e", "f", "g", "h", "i", "j", "k", "l", "m",
   "n", "o", "p", "q", "r", "s", "t", "u", "v", "w", "x", "y", "z",
   "A", "B", "C", "D", "E", "F", "G", "H", "I", "J", "K", "L", "M",
   "N", "O", "P", "Q", "R", "S", "T", "U", "V", "W", "X", "Y", "Z",
   "ª", "µ", "º", "À", "Á", "Â", "Ã", "Ä", "Å", "Æ", "Ç", "È", "É",
   "Ê", "Ë", "Ì", "Í", "Î", "Ï", "Ð", "Ñ", "Ò", "Ó", "Ô", "Õ", "Ö",
   "Ø", "Ù", "Ú", "Û", "Ü", "Ý", "Þ", "ß", "à", "á", "â", "ã", "ä",
   "å", "æ", "ç", "è", "é", "ê", "ë", "ì", "í", "î", "ï", "ð", "ñ",
   "ò", "ó", "ô", "õ", "ö", "ø", "ù", "ú", "û", "ü", "ý", "þ", "ÿ"}
  \cup Digits \cup {"_"}
  \cup Apply(LAMBDA t : {WideChar(n) : n \in {m \in t[1][1]..t[Len(t)][2] :
                                                InRanges(t, m, 1, Len(t))}},
             WordRanges)
  \cup {WideChar(n) : n \in 917760..917999}

\* the regex crate's \s is the Unicode property White_Space, all 25
\* characters of it: U+0009..U+000D, U+0020, U+0085, U+00A0, and past U+00FF
\* U+1680, U+2000..U+200A, U+2028, U+2029, U+202F, U+205F, U+3000
SpaceChars ==
  {" ", "\t", "\n", "", "\f", "\r", "", " ",
   "<U+1680>", "<U+2000>", "<U+2001>", "<U+2002>", "<U+2003>", "<U+2004>",
   "<U+2005>", "<U+2006>", "<U+2007>", "<U+2008>", "<U+2009>", "<U+200A>",
   "<U+2028>", "<U+2029>", "<U+202F>", "<U+205F>", "<U+3000>"}

\* regex class \w
IsWord(c) == c \in WordChars

\* regex class \s
IsSpace(c) == c \in SpaceChars

DigitVal(c) ==
  CASE c = "0" -> 0 [] c = "1" -> 1 [] c = "2" -> 2 [] c = "3" -> 3
    [] c = "4" -> 4 [] c = "5" -> 5 [] c = "6" -> 6 [] c = "7" -> 7
    [] c = "8" -> 8 [] c = "9" -> 9

\* str::starts_with
StartsWith(s, p) == Len(s) >= Len(p) /\ SubSeq(s, 1, Len(p)) = p

\* str::contains
Contains(s, p) ==
  \E i \in 1..(Len(s) - Len(p) + 1) : SubSeq(s, i, i + Len(p) - 1) = p

\* String::from_utf8 succeeds
ValidUtf8(s) == \A i \in 1..Len(s) : s[i] # BadByte

\* the end of the run of word / space / non-space characters that starts at p:
\* the first index >= p whose character is not of the class, or Len(s) + 1
RECURSIVE WordRunEnd(_, _)
WordRunEnd(s, p) ==
  IF p <= Len(s) /\ IsWord(s[p]) THEN WordRunEnd(s, p + 1) ELSE p

RECURSIVE SpaceRunEnd(_, _)
SpaceRunEnd(s, p) ==
  IF p <= Len(s) /\ IsSpace(s[p]) THEN SpaceRunEnd(s, p + 1) ELSE p

RECURSIVE NonSpaceRunEnd(_, _)
NonSpaceRunEnd(s, p) ==
  IF p <= Len(s) /\ ~IsSpace(s[p]) THEN NonSpaceRunEnd(s, p + 1) ELSE p

\* the first index >= p of a "]" with no line feed before it, or 0
RECURSIVE ClosingBracket(_, _)
ClosingBracket(s, p) ==
  IF p > Len(s) \/ s[p] = "\n" THEN 0
  ELSE IF s[p] = "]" THEN p
  ELSE ClosingBracket(s, p + 1)

(***************************************************************************)
(* The regex of parse_showinfo, (\w+):\s*(\[.*?]|\S+), matched at p.       *)
(* \w+ is greedy and must be followed by ':', \s* is greedy and must be    *)
(* followed by a value; the bracketed alternative is tried first and is    *)
(* lazy ('.' does not match a line feed), \S+ is greedy.                   *)
(***************************************************************************)
BracketEnd(s, v) == IF s[v] = "[" THEN ClosingBracket(s, v + 1) ELSE 0

MatchAt(s, p) ==
  Apply(LAMBDA q :          \* the end of \w+
    IF q > p /\ q <= Len(s) /\ s[q] = ":"
      THEN Apply(LAMBDA v : \* the end of \s*
             IF v > Len(s)
               THEN [ok |-> FALSE]
               ELSE Apply(LAMBDA e : [ok |-> TRUE, key |-> SubSeq(s, p, q - 1),
                                      value |-> SubSeq(s, v, e - 1), end |-> e],
                          Apply(LAMBDA b : IF b # 0 THEN b + 1
                                           ELSE NonSpaceRunEnd(s, v),
                                BracketEnd(s, v))),
             SpaceRunEnd(s, q + 1))
      ELSE [ok |-> FALSE],
    WordRunEnd(s, p))

InsertIfAbsent(props, key, value) ==
  [k \in DOMAIN props \cup {key} |-> IF k \in DOMAIN props THEN props[k] ELSE value]

\* HashMap::insert
Insert(props, key, value) ==
  [k \in DOMAIN props \cup {key} |-> IF k = key THEN value ELSE props[k]]

\* RE.captures_iter(line): the leftmost match from pos on, then the next
\* after its end
RECURSIVE CapturesFrom(_, _, _)
CapturesFrom(s, pos, props) ==
  IF pos > Len(s) THEN props
  ELSE LET m == MatchAt(s, pos)
       IN  IF m.ok THEN CapturesFrom(s, m.end, Insert(props, m.key, m.value))
           ELSE CapturesFrom(s, pos + 1, props)

ShowinfoTag ==
  <<"[", "P", "a", "r", "s", "e", "d", "_", "s", "h", "o", "w", "i", "n", "f", "o", "_">>

ConfigMarker == <<"]", " ", "c", "o", "n", "f", "i", "g">>

ParseIgnoringConfig(line, props) ==
  IF ~StartsWith(line, ShowinfoTag)
    THEN [some |-> FALSE, props |-> props]
    ELSE [some |-> TRUE, props |-> CapturesFrom(line, 1, props)]

\* parse_showinfo: [some |-> recognized, props |-> the accumulator afterwards]
parse_showinfo(line, props) ==
  IF ~StartsWith(line, ShowinfoTag)
    THEN [some |-> FALSE, props |-> props]
    ELSE IF Contains(line, ConfigMarker)
      THEN [some |-> FALSE, props |-> props]
      ELSE [some |-> TRUE, props |-> CapturesFrom(line, 1, props)]


(***************************************************************************)
(* Natural numbers of any size: a little-endian sequence of bytes, zero    *)
(* the empty sequence.  The integers of TLC stop at 2^31 - 1; a            *)
(* u32, a u64 and the significand of an f64 do not.                        *)
(***************************************************************************)

\* the natural number of an integer below 2^31
RECURSIVE ToNat(_)
ToNat(n) == IF n = 0 THEN <<>> ELSE <<n % 256>> \o ToNat(n \div 256)

\* the digits ds with the carry c added at the lowest: the bytes d they
\* leave, and the carry c out of the highest
RECURSIVE CarryThrough(_, _)
CarryThrough(ds, c) ==
  IF ds = <<>> THEN [d |-> <<>>, c |-> c]
  ELSE IF Len(ds) = 1
    THEN [d |-> <<(ds[1] + c) % 256>>, c |-> (ds[1] + c) \div 256]
  ELSE LET h  == Len(ds) \div 2
           lo == CarryThrough(SubSeq(ds, 1, h), c)
           hi == CarryThrough(SubSeq(ds, h + 1, Len(ds)), lo.c)
       IN  [d |-> lo.d \o hi.d, c |-> hi.c]

\* the digits ds, each with the carry of the ones below it, as bytes
Carry(ds, c) == Apply(LAMBDA r : r.d \o ToNat(r.c), CarryThrough(ds, c))

Digit(a, k) == IF k <= Len(a) THEN a[k] ELSE 0

AddNat(a, b) ==
  IF a = <<>> THEN b
  ELSE IF b = <<>> THEN a
  ELSE LET n == IF Len(a) > Len(b) THEN Len(a) ELSE Len(b)
       IN  Carry([k \in 1..n |-> Digit(a, k) + Digit(b, k)], 0)

\* a times the byte d
ScaleNat(a, d) == Carry([k \in 1..Len(a) |-> a[k] * d], 0)

\* the sum of the values of f, which are natural numbers
Sum(f) == BagCardinality([x \in {y \in DOMAIN f : f[y] > 0} |-> f[x]])

\* the mathematical product: the k-th digit sums the products a[i] * b[j]
\* with i + j = k + 1, before the carries
MulNat(a, b) ==
  IF a = <<>> \/ b = <<>> THEN <<>>
  ELSE Carry([k \in 1..(Len(a) + Len(b) - 1) |->
                Sum([i \in (IF k < Len(b) THEN 1 ELSE k + 1 - Len(b))
                             ..(IF k < Len(a) THEN k ELSE Len(a)) |->
                       a[i] * b[k + 1 - i]])], 0)

\* without its leading zero bytes
Canon(a) ==
  LET nz == {k \in 1..Len(a) : a[k] # 0}
  IN  IF nz = {} THEN <<>>
      ELSE SubSeq(a, 1, CHOOSE k \in nz : \A j \in nz : j <= k)

LeqNat(a, b) ==
  Apply(LAMBDA t :
          LET x    == t[1]
              y    == t[2]
              diff == {k \in 1..Len(x) : x[k] # y[k]}
          IN  IF Len(x) # Len(y) THEN Len(x) < Len(y)
              ELSE IF diff = {} THEN TRUE
              ELSE LET top == CHOOSE k \in diff : \A j \in diff : j <= k
                   IN  x[top] < y[top],
        <<Canon(a), Canon(b)>>)

\* the integer of a natural number below 2^31
RECURSIVE ToInt(_)
ToInt(a) == IF a = <<>> THEN 0 ELSE Head(a) + 256 * ToInt(Tail(a))

\* the bits of a byte: 0 for 0, 8 for 128..255
RECURSIVE ByteBits(_)
ByteBits(d) == IF d = 0 THEN 0 ELSE 1 + ByteBits(d \div 2)

\* the bits of a natural number: 0 for 0, n + 1 for 2^n .. 2^(n+1) - 1
BitLen(a) ==
  Apply(LAMBDA x : IF x = <<>> THEN 0 ELSE 8 * (Len(x) - 1) + ByteBits(x[Len(x)]),
        Canon(a))

\* a * 2^n
ShiftLeft(a, n) ==
  IF Canon(a) = <<>> THEN <<>>
  ELSE Canon([k \in 1..(n \div 8) |-> 0] \o ScaleNat(a, 2 ^ (n % 8)))

\* a \div 2^n
ShiftRight(a, n) ==
  LET x == SubSeq(a, n \div 8 + 1, Len(a))
      r == n % 8
  IN  Canon([k \in 1..Len(x) |->
               x[k] \div (2 ^ r) + (Digit(x, k + 1) % (2 ^ r)) * 2 ^ (8 - r)])

\* a % 2^n
LowBits(a, n) ==
  LET w == n \div 8
  IN  IF Len(a) <= w THEN Canon(a)
      ELSE Canon(SubSeq(a, 1, w) \o <<a[w + 1] % (2 ^ (n % 8))>>)

\* a / 2^n, rounded to the nearest natural number, a tie to the even one
RoundShift(a, n) ==
  IF n = 0 THEN Canon(a)
  ELSE Apply(LAMBDA t :
               LET q    == t[1]
                   r    == t[2]
                   half == [k \in 1..((n - 1) \div 8) |-> 0] \o <<2 ^ ((n - 1) % 8)>>
                   up   == IF r = half THEN q # <<>> /\ q[1] % 2 = 1
                           ELSE ~LeqNat(r, half)
               IN  IF up THEN Canon(AddNat(q, <<1>>)) ELSE q,
             <<ShiftRight(a, n), LowBits(a, n)>>)

\* d * 256^i
ByteAt(d, i) == [k \in 1..i |-> 0] \o <<d>>

\* the largest byte d + e, e < 2 * w, with (q + (d + e) * 256^i) * b <= a
RECURSIVE QuotBits(_, _, _, _, _, _)
QuotBits(a, b, q, i, d, w) ==
  IF w = 0 THEN d
  ELSE IF LeqNat(MulNat(AddNat(q, ByteAt(d + w, i)), b), a)
         THEN QuotBits(a, b, q, i, d + w, w \div 2)
  ELSE QuotBits(a, b, q, i, d, w \div 2)

\* a \div b for b > 0: the quotient's bytes, from byte i down; each byte,
\* the largest d with (q + d * 256^i) * b <= a, is worked out before the
\* next one is begun
RECURSIVE DivFrom(_, _, _, _)
DivFrom(a, b, q, i) ==
  IF i < 0 THEN Canon(q)
  ELSE Apply(LAMBDA t : DivFrom(a, b, t, i - 1),
             AddNat(q, ByteAt(QuotBits(a, b, q, i, 0, 128), i)))

\* a / b for b > 0, rounded to the nearest natural number, a tie to the even
\* one: an odd quotient goes up from the half on, an even one past the half
RoundDiv(a, b) ==
  Apply(LAMBDA q :
          Apply(LAMBDA t :
                  LET twoa == t[1]
                      mid  == t[2]
                      up   == IF q # <<>> /\ q[1] % 2 = 1 THEN LeqNat(mid, twoa)
                              ELSE ~LeqNat(twoa, mid)
                  IN  IF up THEN Canon(AddNat(q, <<1>>)) ELSE q,
                <<Canon(ScaleNat(a, 2)),
                  Canon(MulNat(AddNat(ScaleNat(q, 2), <<1>>), b))>>),
        DivFrom(a, b, <<>>, Len(Canon(a)) - Len(Canon(b))))

\* quotient and remainder of a by the byte d > 0
RECURSIVE DivSmall(_, _)
DivSmall(a, d) ==
  IF a = <<>> THEN [q |-> <<>>, r |-> 0]
  ELSE LET hi == DivSmall(Tail(a), d)
           lo == Head(a) + 256 * hi.r
       IN  [q |-> <<lo \div d>> \o hi.q, r |-> lo % d]

\* 10^n
RECURSIVE Pow10Nat(_)
Pow10Nat(n) ==
  IF n = 0 THEN <<1>>
  ELSE Apply(LAMBDA h :
               Apply(LAMBDA sq : Canon(IF n % 2 = 0 THEN sq ELSE ScaleNat(sq, 10)),
                     MulNat(h, h)),
             Pow10Nat(n \div 2))

(***************************************************************************)
(* f64::from_str.  Float ::= Sign? ('inf' | 'infinity' | 'nan' | Number),  *)
(* Number ::= (Digit+ | Digit+ '.' Digit* | Digit* '.' Digit+) Exp?,       *)
(* Exp ::= 'e' Sign? Digit+, letters in either case.  The result is the    *)
(* f64 nearest to the decimal, a tie to the even significand: a finite f64 *)
(* is sig * 2^exp with sig < 2^53 and -1074 <= exp <= 971, sig >= 2^52     *)
(* unless exp = -1074 (a subnormal, or zero).                              *)
(***************************************************************************)
ToLower(c) ==
  CASE c = "I" -> "i" [] c = "N" -> "n" [] c = "F" -> "f" [] c = "T" -> "t"
    [] c = "Y" -> "y" [] c = "A" -> "a" [] c = "E" -> "e" [] OTHER -> c

LowerCase(s) == [i \in 1..Len(s) |-> ToLower(s[i])]

AllDigits(s) == \A i \in 1..Len(s) : s[i] \in Digits

\* the value of a digit string, below 2^31
RECURSIVE DecimalValue(_)
DecimalValue(s) ==
  IF s = <<>> THEN 0
  ELSE 10 * DecimalValue(SubSeq(s, 1, Len(s) - 1)) + DigitVal(s[Len(s)])

\* the value of a digit string of any length
RECURSIVE DecimalNat(_)
DecimalNat(s) ==
  IF s = <<>> THEN <<>>
  ELSE IF Len(s) = 1 THEN ToNat(DigitVal(s[1]))
  ELSE LET h == Len(s) \div 2
       IN  Apply(LAMBDA hi :
                   Canon(AddNat(MulNat(hi, Pow10Nat(Len(s) - h)),
                                DecimalNat(SubSeq(s, h + 1, Len(s))))),
                 DecimalNat(SubSeq(s, 1, h)))

\* without its leading zeros
Significant(s) ==
  LET nz == {k \in 1..Len(s) : s[k] # "0"}
  IN  IF nz = {} THEN <<>>
      ELSE SubSeq(s, CHOOSE k \in nz : \A j \in nz : k <= j, Len(s))

IndexOf(s, cs) ==
  IF \E i \in 1..Len(s) : s[i] \in cs
    THEN CHOOSE i \in 1..Len(s) : s[i] \in cs /\ \A j \in 1..(i - 1) : s[j] \notin cs
    ELSE 0

\* [ok, digits, frac]: the digits of a mantissa and how many follow the point
ParseMantissa(s) ==
  LET dot  == IndexOf(s, {"."})
      ip   == IF dot = 0 THEN s ELSE SubSeq(s, 1, dot - 1)
      fp   == IF dot = 0 THEN <<>> ELSE SubSeq(s, dot + 1, Len(s))
  IN  IF AllDigits(ip) /\ AllDigits(fp) /\ Len(ip) + Len(fp) > 0
        THEN [ok |-> TRUE, digits |-> ip \o fp, frac |-> Len(fp)]
        ELSE [ok |-> FALSE]

\* the digits of an exponent, read from the left: no digit is added once
\* the value has reached 65536 (0x10000), so that "655360" is read as 65536
RECURSIVE ExponentValue(_, _)
ExponentValue(s, acc) ==
  IF s = <<>> THEN acc
  ELSE ExponentValue(Tail(s), IF acc < 65536 THEN 10 * acc + DigitVal(s[1]) ELSE acc)

\* [ok, value]: a signed exponent
ParseExponent(s) ==
  LET signed == s # <<>> /\ s[1] \in {"+", "-"}
      ds     == IF signed THEN Tail(s) ELSE s
  IN  IF ds # <<>> /\ AllDigits(ds)
        THEN [ok |-> TRUE,
              value |-> (IF signed /\ s[1] = "-" THEN -1 ELSE 1) * ExponentValue(ds, 0)]
        ELSE [ok |-> FALSE]

F64Zero(neg) == [ok |-> TRUE, kind |-> "num", neg |-> neg, sig |-> <<>>, exp |-> -1074]

F64Inf(neg) == [ok |-> TRUE, kind |-> "inf", neg |-> neg]

\* the f64 of m * 2^u, where m <= 2^53 is the rounded significand
F64Of(neg, m, u) ==
  Apply(LAMBDA n :
          Apply(LAMBDA sig :
                  LET exp == IF n = 54 THEN u + 1 ELSE u
                  IN  IF BitLen(sig) + exp > 1024 THEN F64Inf(neg)
                      ELSE [ok |-> TRUE, kind |-> "num", neg |-> neg,
                            sig |-> sig, exp |-> exp],
                IF n = 54 THEN ShiftRight(m, 1) ELSE m),
        BitLen(m))

\* the f64 nearest to p / q, for p > 0 and q > 0
NearestF64(neg, p, q) ==
  Apply(LAMBDA k0 :
          Apply(LAMBDA atk0 :
                  LET k == IF atk0 THEN k0 ELSE k0 - 1      \* 2^k <= p / q < 2^(k + 1)
                      u == IF k - 52 < -1074 THEN -1074 ELSE k - 52
                  IN  F64Of(neg,
                            IF q = <<1>>
                              THEN IF u >= 0 THEN RoundShift(p, u)
                                   ELSE ShiftLeft(p, 0 - u)
                            ELSE IF u >= 0 THEN RoundDiv(p, ShiftLeft(q, u))
                            ELSE RoundDiv(ShiftLeft(p, 0 - u), q),
                            u),
                IF k0 >= 0 THEN LeqNat(ShiftLeft(q, k0), p)
                ELSE LeqNat(q, ShiftLeft(p, 0 - k0))),
        BitLen(p) - BitLen(q))

\* the f64 nearest to digits * 10^exp10
DecimalToF64(neg, digits, exp10) ==
  Apply(LAMBDA sd :
      LET nd == Len(sd)
      IN
      IF nd = 0 THEN F64Zero(neg)
      ELSE IF nd - 1 + exp10 >= 309 THEN F64Inf(neg)      \* 10^309 and more
      ELSE IF nd + exp10 <= -324 THEN F64Zero(neg)        \* less than 10^-324
      ELSE IF exp10 >= 0
        THEN NearestF64(neg, Canon(MulNat(DecimalNat(sd), Pow10Nat(exp10))), <<1>>)
      ELSE NearestF64(neg, DecimalNat(sd), Pow10Nat(0 - exp10)),
    Significant(digits))

ParseF64(str) ==
  LET signed == str # <<>> /\ str[1] \in {"+", "-"}
      neg    == signed /\ str[1] = "-"
      body   == LowerCase(IF signed THEN Tail(str) ELSE str)
      ex     == IndexOf(body, {"e"})
      mpart  == IF ex = 0 THEN body ELSE SubSeq(body, 1, ex - 1)
      m      == ParseMantissa(mpart)
      e      == IF ex = 0 THEN [ok |-> TRUE, value |-> 0]
                ELSE ParseExponent(SubSeq(body, ex + 1, Len(body)))
  IN  IF body \in {<<"i", "n", "f">>, <<"i", "n", "f", "i", "n", "i", "t", "y">>}
        THEN F64Inf(neg)
      ELSE IF body = <<"n", "a", "n">>
        THEN [ok |-> TRUE, kind |-> "nan", neg |-> neg]
      ELSE IF m.ok /\ e.ok
        THEN DecimalToF64(neg, m.digits, e.value - m.frac)
      ELSE [ok |-> FALSE]

\* Duration::from_secs_f64 panics on a value that is negative, NaN, infinite
\* or 2^64 seconds and more; -0.0 is not negative
DurationPanics(f) ==
  \/ f.kind # "num"
  \/ f.neg /\ f.sig # <<>>
  \/ BitLen(f.sig) + f.exp > 64

\* 10^9, the nanoseconds of a second
NanosPerSec == 1000000000

DurationFromMillisF64(f) ==
  [secs  |-> <<>>,
   nanos |-> 1000000 * ToInt(IF f.exp >= 0 THEN ShiftLeft(f.sig, f.exp)
                             ELSE ShiftRight(f.sig, 0 - f.exp))]

\* Duration::from_secs_f64: the whole seconds, a u64, and the rest in
\* nanoseconds, rounded to the nearest one, a tie to the even one
DurationFromSecsF64(f) ==
  IF f.exp >= 0
    THEN [secs |-> ShiftLeft(f.sig, f.exp), nanos |-> 0]
    ELSE Apply(LAMBDA t :
                 LET secs  == t[1]
                     nanos == t[2]
                 IN  IF nanos = NanosPerSec
                       THEN [secs |-> Canon(AddNat(secs, <<1>>)), nanos |-> 0]
                       ELSE [secs |-> secs, nanos |-> nanos],
               <<ShiftRight(f.sig, 0 - f.exp),
                 ToInt(RoundShift(MulNat(LowBits(f.sig, 0 - f.exp),
                                         ToNat(NanosPerSec)), 0 - f.exp))>>)

(***************************************************************************)
(* Diagnostic lines the decode subprocess writes to its standard error.    *)
(***************************************************************************)
LineHead == ShowinfoTag \o <<"0", "]", " ">>

PtsTimeKey == <<"p", "t", "s", "_", "t", "i", "m", "e">>

\* "[Parsed_showinfo_0] n:1 pts_time:<t>\n": the first line of a frame
PtsLine(t) == LineHead \o <<"n", ":", "1", " ">> \o PtsTimeKey \o <<":">> \o t \o <<"\n">>

\* "[Parsed_showinfo_0] color_range:tv\n": the second line of a frame
ColorLine ==
  LineHead \o <<"c", "o", "l", "o", "r", "_", "r", "a", "n", "g", "e", ":", "t", "v", "\n">>

\* "[Parsed_showinfo_0] pts_time:x\n": a timestamp that is no number
BadPtsLine == LineHead \o PtsTimeKey \o <<":", "x", "\n">>

\* "[Parsed_showinfo_0] config in\n": the filter's configuration line
ConfigLine == LineHead \o <<"c", "o", "n", "f", "i", "g", " ", "i", "n", "\n">>

\* an empty line
BlankLine == <<"\n">>

\* a line holding a byte that is not UTF-8
Utf8ErrLine == <<BadByte, "\n">>

DigitChar(n) == CHOOSE c \in Digits : DigitVal(c) = n

\* the lines a subprocess of any behaviour may write
LineSet == {PtsLine(<<"1">>), ColorLine, BadPtsLine, ConfigLine, Utf8ErrLine}

\* "Output n:9\n": banner text with a key and a value
BannerLine == <<"O", "u", "t", "p", "u", "t", " ", "n", ":", "9", "\n">>

\* " [Parsed_showinfo_0] n:9\n": the tag, not at the start of the line
IndentedLine == <<" ">> \o LineHead \o <<"n", ":", "9", "\n">>

\* "[Parsed_showinfo n:9\n": the tag cut short
ShortTagLine == SubSeq(ShowinfoTag, 1, Len(ShowinfoTag) - 1) \o <<" ", "n", ":", "9", "\n">>

\* "[Parsed_showinfo_0] n:9 m:[1] config\n": the marker after a bracketed value
LateConfigLine ==
  LineHead \o <<"n", ":", "9", " ", "m", ":", "[", "1", "]", " ",
                "c", "o", "n", "f", "i", "g", "\n">>

\* "[Parsed_showinfo_0]config:7\n": nearly the marker, the space missing
NearConfigLine ==
  ShowinfoTag \o <<"0", "]", "c", "o", "n", "f", "i", "g", ":", "7", "\n">>

\* "[Parsed_showinfo_0] mean:[2 3] n:5\n": a bracketed value, and the key n of
\* the first line of a frame
MeanLine ==
  LineHead \o <<"m", "e", "a", "n", ":", "[", "2", " ", "3", "]", " ", "n", ":", "5", "\n">>

\* the line of test_parse_showinfo1
TestLine1 ==
  <<"[", "P", "a", "r", "s", "e", "d", "_", "s", "h", "o", "w", "i", "n",
    "f", "o", "_", "1", " ", "@", " ", "0", "0", "0", "0", "0", "2", "6",
    "6", "9", "d", "f", "e", "f", "e", "c", "0", "]", " ", "n", ":", " ",
    " ", " ", "1", " ", "p", "t", "s", ":", " ", " ", " ", " ", " ", " ",
    "1", " ", "p", "t", "s", "_", "t", "i", "m", "e", ":", "1", "2", "0",
    " ", " ", " ", " ", " ", "p", "o", "s", ":", " ", "1", "4", "1", "8",
    "5", "6", "9", "8", " ", "f", "m", "t", ":", "y", "u", "v", "4", "2",
    "0", "p", " ", "s", "a", "r", ":", "1", "/", "1", " ", "s", ":", "1",
    "9", "2", "0", "x", "1", "0", "8", "0", " ", "i", ":", "P", " ", "i",
    "s", "k", "e", "y", ":", "0", " ", "t", "y", "p", "e", ":", "B", " ",
    "c", "h", "e", "c", "k", "s", "u", "m", ":", "A", "9", "1", "F", "9",
    "8", "2", "B", " ", "p", "l", "a", "n", "e", "_", "c", "h", "e", "c",
    "k", "s", "u", "m", ":", "[", "7", "B", "F", "A", "6", "F", "1", "4",
    " ", "E", "D", "4", "B", "1", "E", "6", "2", " ", "9", "2", "9", "0",
    "0", "A", "B", "5", "]", " ", "m", "e", "a", "n", ":", "[", "2", "2",
    "7", " ", "1", "2", "7", " ", "1", "3", "0", "]", " ", "s", "t", "d",
    "e", "v", ":", "[", "3", "5", ".", "1", " ", "1", "0", ".", "3", " ",
    "1", "0", ".", "0", "]">>

\* the line of test_parse_showinfo2
TestLine2 ==
  <<"[", "P", "a", "r", "s", "e", "d", "_", "s", "h", "o", "w", "i", "n",
    "f", "o", "_", "1", " ", "@", " ", "0", "0", "0", "0", "0", "2", "6",
    "6", "9", "d", "f", "e", "f", "e", "c", "0", "]", " ", "c", "o", "l",
    "o", "r", "_", "r", "a", "n", "g", "e", ":", "u", "n", "k", "n", "o",
    "w", "n", " ", "c", "o", "l", "o", "r", "_", "s", "p", "a", "c", "e",
    ":", "u", "n", "k", "n", "o", "w", "n", " ", "c", "o", "l", "o", "r",
    "_", "p", "r", "i", "m", "a", "r", "i", "e", "s", ":", "u", "n", "k",
    "n", "o", "w", "n", " ", "c", "o", "l", "o", "r", "_", "t", "r", "c",
    ":", "u", "n", "k", "n", "o", "w", "n">>

\* the line of test_parse_showinfo3
TestLine3 ==
  <<"O", "u", "t", "p", "u", "t", " ", "#", "0", ",", " ", "i", "m", "a",
    "g", "e", "2", "p", "i", "p", "e", ",", " ", "t", "o", " ", "'", "p",
    "i", "p", "e", ":", "'", ":">>

\* the line of test_parse_showinfo4
TestLine4 ==
  <<"[", "P", "a", "r", "s", "e", "d", "_", "s", "h", "o", "w", "i", "n",
    "f", "o", "_", "1", " ", "@", " ", "0", "0", "0", "0", "0", "2", "6",
    "6", "9", "d", "f", "e", "f", "e", "c", "0", "]", " ", "c", "o", "n",
    "f", "i", "g", " ", "i", "n", " ", "t", "i", "m", "e", "_", "b", "a",
    "s", "e", ":", " ", "1", "2", "0", "/", "1", ",", " ", "f", "r", "a",
    "m", "e", "_", "r", "a", "t", "e", ":", " ", "1", "/", "1", "2", "0">>

\* the line of test_parse_showinfo5
TestLine5 ==
  <<"[", "P", "a", "r", "s", "e", "d", "_", "s", "h", "o", "w", "i", "n",
    "f", "o", "_", "1", " ", "@", " ", "0", "0", "0", "0", "0", "2", "6",
    "6", "9", "d", "f", "e", "f", "e", "c", "0", "]", " ", "c", "o", "n",
    "f", "i", "g", " ", "o", "u", "t", " ", "t", "i", "m", "e", "_", "b",
    "a", "s", "e", ":", " ", "0", "/", "0", ",", " ", "f", "r", "a", "m",
    "e", "_", "r", "a", "t", "e", ":", " ", "0", "/", "0">>

\* the lines the subprocess writes: all but the five of the tests end with
\* their newline
ParseLines ==
  {PtsLine(<<"1">>), PtsLine(<<"2">>), ColorLine, MeanLine, NearConfigLine,
   ConfigLine, LateConfigLine, BlankLine, BannerLine, IndentedLine, ShortTagLine,
   Utf8ErrLine, TestLine1, TestLine2, TestLine3, TestLine4, TestLine5}

\* every line the model's subprocesses write
KnownLines ==
  LineSet \cup ParseLines \cup {PtsLine(<<DigitChar(n)>>) : n \in 1..9}

\* the accumulators get_next can hold when it parses a line: empty, or the
\* fields of one recognized line
KnownInfos == {<<>>} \cup {parse_showinfo(l, <<>>).props : l \in KnownLines}

\* parse_showinfo on the model's lines and accumulators, evaluated once and
\* looked up by ParseLine; any other argument is parsed on the spot
RECURSIVE ShowinfoRow(_, _)
ShowinfoRow(line, ps) ==
  IF ps = {} THEN <<>>
  ELSE LET p == CHOOSE q \in ps : TRUE
       IN  (p :> parse_showinfo(line, p)) @@ ShowinfoRow(line, ps \ {p})

RECURSIVE ShowinfoRows(_)
ShowinfoRows(ls) ==
  IF ls = {} THEN <<>>
  ELSE LET l == CHOOSE m \in ls : TRUE
       IN  (l :> ShowinfoRow(l, KnownInfos)) @@ ShowinfoRows(ls \ {l})

ShowinfoTable == ShowinfoRows(KnownLines)

ParseLine(line, props) ==
  IF line \in KnownLines /\ props \in KnownInfos
    THEN ShowinfoTable[line][props]
    ELSE parse_showinfo(line, props)

\* width and height of the primary video stream
Dims == {<<0, 1>>, <<1, 1>>}

(***************************************************************************)
(* ffprobe.rs: the probe's output and the FFProbeInfo built from it.       *)
(* An Option is [some |-> FALSE] or [some |-> TRUE, value |-> v].          *)
(***************************************************************************)
NoneOpt == [some |-> FALSE]

Some(v) == [some |-> TRUE, value |-> v]

\* FFProbeStreamInfo, of the fields FFProbeInfo::of reads
RawStream(w, h) == [width |-> w, height |-> h, avg_frame_rate |-> 25, nb_frames |-> 1]

\* the streams the probing tool may report
RawStreams ==
  {RawStream(w, h) : w \in {NoneOpt, Some(0), Some(1)}, h \in {NoneOpt, Some(1)}}

RECURSIVE SeqsUpTo(_, _)
SeqsUpTo(S, n) ==
  IF n = 0 THEN {<<>>}
  ELSE LET shorter == SeqsUpTo(S, n - 1)
       IN  shorter \cup {Append(q, x) : q \in shorter, x \in S}

\* lines 53-60: StreamInfo::Video(VideoStreamInfo { .. })
Video(st) ==
  [tag |-> "Video",
   v   |-> [width |-> st.width.value, height |-> st.height.value,
            frame_rate |-> st.avg_frame_rate, frames_count |-> st.nb_frames]]

\* lines 49-61: the streams that report a width and a height, as video streams
RECURSIVE AdmittedStreams(_)
AdmittedStreams(raw) ==
  IF raw = <<>> THEN <<>>
  ELSE LET st == Head(raw)
       IN  IF st.width.some /\ st.height.some
             THEN <<Video(st)>> \o AdmittedStreams(Tail(raw))
             ELSE AdmittedStreams(Tail(raw))

\* lines 71-78: the VideoStreamInfo of every StreamInfo::Video
RECURSIVE VideoStreams(_)
VideoStreams(streams) ==
  IF streams = <<>> THEN <<>>
  ELSE IF Head(streams).tag = "Video"
    THEN <<Head(streams).v>> \o VideoStreams(Tail(streams))
    ELSE VideoStreams(Tail(streams))

FirstVideoStream(streams) ==
  LET video_streams == VideoStreams(streams)
  IN  IF Len(video_streams) >= 1 THEN Some(video_streams[1]) ELSE NoneOpt

\* lines 47-62: the FFProbeInfo of a duration, an f64, and the streams
FFProbeInfo(duration, raw) ==
  [duration |-> DurationFromSecsF64(duration), streams |-> AdmittedStreams(raw)]

\* FFProbeInfo::primary_video_stream, lines 70-85
primary_video_stream(streams) ==
  LET video_streams == VideoStreams(streams)
  IN  IF Len(video_streams) = 1 THEN Some(video_streams[1]) ELSE NoneOpt

(***************************************************************************)
(* State.                                                                  *)
(***************************************************************************)
VARIABLES
  opening,         \* FFMpegVideo::open: its inputs, how far it is, what it did
  info,            \* the FFProbeInfo that FFProbeInfo::of built
  primary_video_stream_info,  \* FFMpegVideo.primary_video_stream_info
  stderr,          \* lines written to the diagnostic pipe and not yet read
  stderr_buf,      \* FFMpegVideo.stderr: lines its BufReader holds, read from the pipe
  stdout,          \* bytes written to the pixel pipe and not yet read
  child,           \* the decode subprocess: "none", "running", "exited", "reaped"
  pc,              \* the consumer: "idle", "diag", "pix", "panicked", "dropped"
  infos,           \* get_next: infos
  lines_to_read,   \* get_next: lines_to_read
  time_seconds,    \* get_next: time_seconds, once parsed
  buffer,          \* get_next: the bytes read_exact has filled so far
  results,         \* the frames next() has yielded, in order
  last,            \* what the call returned and read, from its end to the next call
  cycle,           \* what the call in progress has read
  hist,            \* what the finished calls returned and read, in total
  sub              \* the subprocess: what it has written, and its next write

vars == <<opening, info, primary_video_stream_info, stderr, stderr_buf, stdout, child, pc, infos,
          lines_to_read, time_seconds, buffer, results, last, cycle, hist, sub>>

locals == <<infos, lines_to_read, time_seconds, buffer>>

ghost == <<results, last, cycle, hist>>

\* what a call has read: the lines and the recognized ones among them, the
\* pixel bytes, the end or fault it met, its pts_time (line 143) and, in own,
\* the last pts_time value on a line that this call itself read
NoCycle ==
  [recognized |-> 0, lines |-> 0, bytes |-> 0, eof |-> "none", pts |-> "unread",
   own |-> <<>>]

\* no call has finished since next() was last called, or ever
Pending == [result |-> [kind |-> "Start"], cycle |-> NoCycle]

KeepInfos(old) == old

\* line 127: let mut infos = HashMap::new(), a local of the call
FreshInfos(old) == <<>>

\* the pts_time value on the line, or what the call had before
OwnPts(line, before) ==
  LET f == ParseLine(line, <<>>)
  IN  IF f.some /\ PtsTimeKey \in DOMAIN f.props THEN f.props[PtsTimeKey] ELSE before

NoTime == [ok |-> FALSE]

OneLinePerFrame == 2 - 1

\* line 132: let mut lines_to_read = 2
LinesPerFrame == 2

\* (i.width * i.height * 3) as usize, for the widths and heights of Dims,
\* whose product is far from 2^32; FrameBytesU32 is the same line for every
\* u32 width and height
FrameBytes(i) == i.width * i.height * 3

\* FrameBuffer::from_raw is Some: the buffer holds width * height * 3 bytes
FromRawFits(i, buf) == i.width * i.height * 3 <= Len(buf)

(***************************************************************************)
(* Results of next().                                                      *)
(***************************************************************************)
None == [kind |-> "None"]

IOErr == [kind |-> "Err", error |-> "IOError"]

ParseErr == [kind |-> "Err", error |-> "ParseError"]

\* not a value: an unwrap or expect aborted the call
Panic == [kind |-> "Panic"]

Frame(image, time_offset) ==
  [kind |-> "Frame", image |-> image, time_offset |-> time_offset]

\* lines 156-166: the image and the frame, from a full buffer
MakeFrame(i, buf, secs) ==
  IF ~FromRawFits(i, buf) THEN Panic
  ELSE IF DurationPanics(secs) THEN Panic
  ELSE Frame(buf, DurationFromSecsF64(secs))

\* line 143: infos.get("pts_time") and f64::from_str of it
PtsState(props) ==
  IF PtsTimeKey \notin DOMAIN props THEN "missing"
  ELSE IF ~ParseF64(props[PtsTimeKey]).ok THEN "malformed"
  ELSE "ok"

\* line 143: both unwraps abort the call
AfterDiagnostics(props) ==
  IF PtsTimeKey \notin DOMAIN props THEN [ok |-> FALSE, result |-> Panic]
  ELSE Apply(LAMBDA f : IF f.ok THEN [ok |-> TRUE, secs |-> f]
                        ELSE [ok |-> FALSE, result |-> Panic],
             ParseF64(props[PtsTimeKey]))

PixelEofIsError(k) == IOErr

\* lines 148-154: what get_next returns when read_exact meets the end of the
\* pixel pipe with k bytes of the frame read
AtPixelEof(k) == None

DiagnosticEofIsError == IOErr

\* lines 135-138: what get_next returns when read_line reads no byte
AtDiagnosticEof == None

\* Iterator::next (lines 173-179) hands the result of get_next to the caller
Return(r, c) ==
  /\ results' = IF r.kind = "Frame" THEN Append(results, r) ELSE results
  /\ last' = [result |-> r, cycle |-> c]
  /\ hist' = [clean      |-> hist.clean /\ r.kind = "Frame",
              erred      |-> hist.erred \/ r.kind = "Err",
              ended      |-> hist.ended \/ r.kind = "None",
              recognized |-> hist.recognized + c.recognized,
              bytes      |-> hist.bytes + c.bytes]
  /\ cycle' = NoCycle
  /\ pc' = IF r.kind = "Panic" THEN "panicked" ELSE "idle"
  /\ infos' = FreshInfos(infos)
  /\ lines_to_read' = 0
  /\ time_seconds' = NoTime
  /\ buffer' = <<>>

(***************************************************************************)
(* The filter graph of the decode command (lines 67-75).  A Duration is    *)
(* [secs, nanos]: a u64 of whole seconds, and nanoseconds below 10^9.      *)
(***************************************************************************)
\* Duration::as_secs: the whole seconds
as_secs(d) == d.secs

\* format!("{:?}", n) of a u64: its decimal digits
RECURSIVE FormatU64(_)
FormatU64(n) ==
  LET d == DivSmall(n, 10)
  IN  IF Canon(d.q) = <<>> THEN <<DigitChar(d.r)>>
      ELSE FormatU64(Canon(d.q)) \o <<DigitChar(d.r)>>

\* lines 67-73: the filters
Filters(sampling_interval) ==
  (IF sampling_interval.some
     THEN << <<"f", "p", "s", "=", "1", "/">> \o FormatU64(as_secs(sampling_interval.value)) >>
     ELSE <<>>)
  \o << <<"s", "h", "o", "w", "i", "n", "f", "o">> >>

\* [String]::join
RECURSIVE Join(_, _)
Join(parts, sep) ==
  IF parts = <<>> THEN <<>>
  ELSE IF Len(parts) = 1 THEN parts[1]
  ELSE parts[1] \o sep \o Join(Tail(parts), sep)

\* line 75: the value of -vf
VfArgument(sampling_interval) == Join(Filters(sampling_interval), <<",">>)

\* what FFMpegVideo::open leaves of the probe output raw when it returns Ok
Opened(raw) ==
  /\ opening = [pc |-> "open", video_path |-> "a.mp4", file |-> "",
                sampling_interval |-> NoneOpt, vf |-> VfArgument(NoneOpt),
                exists |-> TRUE, probe_ok |-> TRUE,
                read_ok |-> TRUE, json_ok |-> TRUE, duration |-> <<"1">>,
                raw |-> raw, decode_ok |-> TRUE,
                probe_spawned |-> TRUE, decode_spawned |-> TRUE,
                error |-> "none", asked |-> TRUE,
                primary |-> primary_video_stream(AdmittedStreams(raw))]
  /\ info = Some(FFProbeInfo(ParseF64(<<"1">>), raw))
  /\ primary_video_stream_info = primary_video_stream(AdmittedStreams(raw)).value

\* the session before the first call of next()
Unread ==
  /\ stderr = <<>>
  /\ stderr_buf = <<>>
  /\ stdout = <<>>
  /\ child = "running"
  /\ pc = "idle"
  /\ infos = <<>>
  /\ lines_to_read = 0
  /\ time_seconds = NoTime
  /\ buffer = <<>>
  /\ results = <<>>
  /\ last = Pending
  /\ cycle = NoCycle
  /\ hist = [clean |-> TRUE, erred |-> FALSE, ended |-> FALSE,
             recognized |-> 0, bytes |-> 0]

\* the state FFMpegVideo::open leaves when it returns Ok
InitSession ==
  /\ \E d \in Dims : Opened(<<RawStream(Some(d[1]), Some(d[2]))>>)
  /\ Unread

Init ==
  /\ InitSession
  /\ sub = [lines |-> 0, bytes |-> 0, closed |-> {}]

(***************************************************************************)
(* The consumer: next() and get_next(), split at the reads that block.     *)
(***************************************************************************)
\* the subprocess holds the write end e of a pipe: it runs and has not closed it
WriteEndOpen(e) == child = "running" /\ e \notin sub.closed

Drained(pipe, e) == pipe = <<>>

\* a blocking read returns no byte: nothing is left in the pipe and nothing
\* holds its write end e
AtEnd(pipe, e) == pipe = <<>> /\ ~WriteEndOpen(e)

\* a next() that yields no more frames than frames_count declares
CallUpToFramesCount ==
  /\ pc \in {"idle", "panicked"}
  /\ IF Len(results) >= primary_video_stream_info.frames_count
       THEN Return(None, NoCycle)
       ELSE /\ pc' = "diag"
            /\ infos' = FreshInfos(infos)
            /\ lines_to_read' = LinesPerFrame
            /\ cycle' = NoCycle
            /\ last' = Pending
            /\ UNCHANGED <<time_seconds, buffer, results, hist>>
  /\ UNCHANGED <<info, opening, primary_video_stream_info, stderr, stderr_buf, stdout, child, sub>>

\* next() is called: lines 127-132.  It takes &mut self, so the call before
\* it has ended: it returned, or it panicked and the caller caught the panic
\* (catch_unwind); what a panicking call leaves of the FFMpegVideo is what a
\* returning one leaves, its locals gone and the BufReader as it was
Call ==
  /\ pc \in {"idle", "panicked"}
  /\ pc' = "diag"
  /\ infos' = FreshInfos(infos)
  /\ lines_to_read' = LinesPerFrame
  /\ cycle' = NoCycle
  /\ last' = Pending
  /\ UNCHANGED <<info, opening, primary_video_stream_info, stderr, stderr_buf, stdout, child,
                 time_seconds, buffer, results, hist, sub>>

\* one turn of the loop of lines 133-142, and what follows it when the
\* second recognized line has been read.  read_line takes the line from the
\* BufReader; when that holds nothing, one read of the pipe fills it first,
\* with all the pipe holds and the BufReader has room for
ReadLine ==
  /\ pc = "diag"
  /\ stderr_buf # <<>> \/ stderr # <<>> \/ AtEnd(stderr, "stderr")
  /\ UNCHANGED <<info, opening, primary_video_stream_info, stdout, child, sub>>
  /\ LET n      == IF Len(stderr) < BufCap THEN Len(stderr) ELSE BufCap
         filled == IF stderr_buf # <<>> THEN stderr_buf ELSE SubSeq(stderr, 1, n)
         rest   == IF stderr_buf # <<>> THEN stderr
                   ELSE SubSeq(stderr, n + 1, Len(stderr))
     IN  IF filled = <<>>
           THEN \* read_line returned 0 bytes: line.len() == 0
                /\ stderr' = stderr
                /\ stderr_buf' = stderr_buf
                /\ Return(AtDiagnosticEof, [cycle EXCEPT !.eof = "diag"])
           ELSE \E r \in {ParseLine(Head(filled), infos)},
                   own \in {OwnPts(Head(filled), cycle.own)} :
                LET line == Head(filled)
                    left == IF r.some THEN lines_to_read - 1 ELSE lines_to_read
                    c    == [cycle EXCEPT !.lines = @ + 1,
                                          !.recognized = IF r.some THEN @ + 1 ELSE @,
                                          !.own = own]
                    i    == primary_video_stream_info
                    d    == AfterDiagnostics(r.props)
                IN  /\ stderr' = rest
                    /\ stderr_buf' = Tail(filled)
                    /\ IF ~ValidUtf8(line)
                         THEN \* read_line: Err(InvalidData), the line consumed
                              Return(IOErr, [cycle EXCEPT !.lines = @ + 1])
                       ELSE IF left > 0
                         THEN /\ infos' = r.props
                              /\ lines_to_read' = left
                              /\ cycle' = c
                              /\ UNCHANGED <<pc, time_seconds, buffer, results, last, hist>>
                       ELSE IF ~d.ok
                         THEN Return(d.result, [c EXCEPT !.pts = PtsState(r.props)])
                       ELSE IF FrameBytes(i) = 0
                         THEN \* read_exact of an empty buffer reads nothing
                              Return(MakeFrame(i, <<>>, d.secs), [c EXCEPT !.pts = "ok"])
                       ELSE /\ infos' = r.props
                            /\ lines_to_read' = 0
                            /\ time_seconds' = d.secs
                            /\ buffer' = <<>>
                            /\ pc' = "pix"
                            /\ cycle' = [c EXCEPT !.pts = "ok"]
                            /\ UNCHANGED <<results, last, hist>>

\* one read of read_exact (line 148), and lines 149-166 when it ends
ReadPixels ==
  /\ pc = "pix"
  /\ stdout # <<>> \/ AtEnd(stdout, "stdout")
  /\ UNCHANGED <<info, opening, primary_video_stream_info, stderr, stderr_buf, child, sub>>
  /\ IF stdout = <<>>
       THEN \* read returned 0: ErrorKind::UnexpectedEof
            /\ stdout' = stdout
            /\ Return(AtPixelEof(Len(buffer)), [cycle EXCEPT !.eof = "pix"])
       ELSE LET need == FrameBytes(primary_video_stream_info) - Len(buffer)
                n    == IF Len(stdout) < need THEN Len(stdout) ELSE need
                buf  == buffer \o SubSeq(stdout, 1, n)
                c    == [cycle EXCEPT !.bytes = @ + n]
            IN  /\ stdout' = SubSeq(stdout, n + 1, Len(stdout))
                /\ IF n < need
                     THEN /\ buffer' = buf
                          /\ cycle' = c
                          /\ UNCHANGED <<pc, infos, lines_to_read, time_seconds,
                                         results, last, hist>>
                     ELSE Return(MakeFrame(primary_video_stream_info, buf, time_seconds), c)

\* a read of either pipe fails for another reason than its end (lines 135, 153)
ReadFails ==
  /\ pc \in {"diag", "pix"}
  /\ Return(IOErr, [cycle EXCEPT !.eof = "fault"])
  /\ UNCHANGED <<info, opening, primary_video_stream_info, stderr, stderr_buf, stdout, child, sub>>

(***************************************************************************)
(* The decode subprocess, of any behaviour.                                *)
(***************************************************************************)
WriteLine(l) ==
  /\ WriteEndOpen("stderr")
  /\ pc # "dropped"
  /\ sub.lines < MaxLines
  /\ Len(stderr) < DiagCap
  /\ stderr' = Append(stderr, l)
  /\ sub' = [sub EXCEPT !.lines = @ + 1]
  /\ UNCHANGED <<info, opening, primary_video_stream_info, stderr_buf, stdout, child, pc,
                 locals, ghost>>

WritePixels ==
  /\ WriteEndOpen("stdout")
  /\ pc # "dropped"
  /\ sub.bytes < MaxBytes
  /\ Len(stdout) < PixCap
  /\ stdout' = Append(stdout, sub.bytes + 1)
  /\ sub' = [sub EXCEPT !.bytes = @ + 1]
  /\ UNCHANGED <<info, opening, primary_video_stream_info, stderr, stderr_buf, child, pc, locals, ghost>>

\* the subprocess closes its end e of a pipe and runs on: the pipe reaches its
\* end once it is drained
ClosePipe(e) ==
  /\ WriteEndOpen(e)
  /\ pc # "dropped"
  /\ sub' = [sub EXCEPT !.closed = @ \cup {e}]
  /\ UNCHANGED <<info, opening, primary_video_stream_info, stderr, stderr_buf, stdout, child,
                 pc, locals, ghost>>

\* the subprocess ends: both pipes reach their end once they are drained
ChildExit ==
  /\ child = "running"
  /\ child' = "exited"
  /\ sub' = [sub EXCEPT !.closed = {"stderr", "stdout"}]
  /\ UNCHANGED <<info, opening, primary_video_stream_info, stderr, stderr_buf, stdout, pc,
                 locals, ghost>>

(***************************************************************************)
(* The FFMpegVideo is dropped, between two calls of next() or by the       *)
(* unwinding of a call that panicked.  The struct has no Drop impl and     *)
(* open() let go of the Child without waiting for it (lines 92-95): the    *)
(* two handles are closed, what the pipes held is lost, and nothing else   *)
(* is done.  A write of the subprocess fails from then on.                 *)
(***************************************************************************)
Drop ==
  /\ pc \in {"idle", "panicked"}
  /\ pc' = "dropped"
  /\ stderr' = <<>>
  /\ stderr_buf' = <<>>
  /\ stdout' = <<>>
  /\ UNCHANGED <<info, opening, primary_video_stream_info, child, locals, ghost, sub>>

Next ==
  \/ Call
  \/ ReadLine
  \/ ReadPixels
  \/ ReadFails
  \/ Drop
  \/ \E l \in LineSet : WriteLine(l)
  \/ WritePixels
  \/ \E e \in {"stderr", "stdout"} : ClosePipe(e)
  \/ ChildExit

Spec == Init /\ [][Next]_vars

(***************************************************************************)
(* A well-formed decode subprocess: for each frame in turn it writes the   *)
(* frame's two showinfo lines, then the frame's pixels, and it ends after  *)
(* the last frame.  It may write an unrecognized line at any point.  A     *)
(* write waits while its pipe is full.                                     *)
(***************************************************************************)
JunkLines == {ConfigLine, BlankLine}

\* avg_frame_rate and nb_frames as the probe declares them: nb_frames may be
\* less or more than the frames the subprocess decodes
Declared == {<<25, 1>>, <<30, 0>>, <<24, 9>>}

InitProto ==
  /\ \E d \in Dims, a \in Declared :
       Opened(<<[RawStream(Some(d[1]), Some(d[2]))
                  EXCEPT !.avg_frame_rate = a[1], !.nb_frames = a[2]]>>)
  /\ Unread
  /\ \E n \in 0..MaxFrames :
       sub = [lines |-> 0, bytes |-> 0, frames |-> n, frame |-> 1, rec |-> 0,
              pix |-> 0, junk |-> 0, pending |-> <<>>, closed |-> {}]

\* the frame is complete: on to the next
NextFrame(sb) == [sb EXCEPT !.frame = @ + 1, !.rec = 0, !.pix = 0]

ProtoLine ==
  /\ child = "running"
  /\ pc # "dropped"
  /\ sub.pending = <<>>
  /\ sub.frame <= sub.frames
  /\ sub.rec < 2
  /\ Len(stderr) < DiagCap
  /\ stderr' = Append(stderr, IF sub.rec = 0 THEN PtsLine(<<DigitChar(sub.frame)>>)
                              ELSE ColorLine)
  /\ LET sb == [sub EXCEPT !.rec = @ + 1, !.lines = @ + 1]
     IN  sub' = IF sb.rec = 2 /\ FrameBytes(primary_video_stream_info) = 0
                  THEN NextFrame(sb) ELSE sb
  /\ UNCHANGED <<info, opening, primary_video_stream_info, stderr_buf, stdout, child, pc,
                 locals, ghost>>

ProtoPixels ==
  /\ child = "running"
  /\ pc # "dropped"
  /\ sub.pending = <<>>
  /\ sub.frame <= sub.frames
  /\ sub.rec = 2
  /\ Len(stdout) < PixCap
  /\ stdout' = Append(stdout, sub.bytes + 1)
  /\ LET sb == [sub EXCEPT !.pix = @ + 1, !.bytes = @ + 1]
     IN  sub' = IF sb.pix = FrameBytes(primary_video_stream_info)
                  THEN NextFrame(sb) ELSE sb
  /\ UNCHANGED <<info, opening, primary_video_stream_info, stderr, stderr_buf, child, pc, locals, ghost>>

\* the subprocess sets out to write an unrecognized line
ProtoJunkStart(l) ==
  /\ child = "running"
  /\ pc # "dropped"
  /\ sub.pending = <<>>
  /\ sub.junk < MaxJunk
  /\ sub' = [sub EXCEPT !.pending = l, !.junk = @ + 1]
  /\ UNCHANGED <<info, opening, primary_video_stream_info, stderr, stderr_buf, stdout, child, pc, locals, ghost>>

ProtoJunkWrite ==
  /\ child = "running"
  /\ pc # "dropped"
  /\ sub.pending # <<>>
  /\ Len(stderr) < DiagCap
  /\ stderr' = Append(stderr, sub.pending)
  /\ sub' = [sub EXCEPT !.pending = <<>>, !.lines = @ + 1]
  /\ UNCHANGED <<info, opening, primary_video_stream_info, stderr_buf, stdout, child, pc,
                 locals, ghost>>

\* every frame is written: the subprocess ends and both pipes are closed
ProtoExit ==
  /\ child = "running"
  /\ pc # "dropped"
  /\ sub.pending = <<>>
  /\ sub.frame > sub.frames
  /\ child' = "exited"
  /\ sub' = [sub EXCEPT !.closed = {"stderr", "stdout"}]
  /\ UNCHANGED <<info, opening, primary_video_stream_info, stderr, stderr_buf, stdout, pc,
                 locals, ghost>>

\* both read ends are closed: the next write of the subprocess fails and it ends
ProtoBrokenPipe ==
  /\ child = "running"
  /\ pc = "dropped"
  /\ child' = "exited"
  /\ sub' = [sub EXCEPT !.closed = {"stderr", "stdout"}]
  /\ UNCHANGED <<info, opening, primary_video_stream_info, stderr, stderr_buf, stdout, pc,
                 locals, ghost>>

NextProto ==
  \/ Call
  \/ ReadLine
  \/ ReadPixels
  \/ Drop
  \/ ProtoLine
  \/ ProtoPixels
  \/ \E l \in JunkLines : ProtoJunkStart(l)
  \/ ProtoJunkWrite
  \/ ProtoExit
  \/ ProtoBrokenPipe

SpecProto == InitProto /\ [][NextProto]_vars

(***************************************************************************)
(* Claims.                                                                 *)
(***************************************************************************)
N == primary_video_stream_info.width * primary_video_stream_info.height * 3

\* C1: a call whose pixel read met the end of the pixel pipe after k bytes,
\* 0 < k < W*H*3, returns Some(Err(IOError)).
C1_ShortReadIsIOError ==
  (last.cycle.eof = "pix" /\ 0 < last.cycle.bytes /\ last.cycle.bytes < N)
    => last.result = IOErr

\* C2: a call whose two recognized lines leave no pts_time, or one that is no
\* floating-point number, returns Some(Err(ParseError)); it does not panic.
C2_BadTimestampIsParseError ==
  last.cycle.pts \in {"missing", "malformed"} => last.result = ParseErr

\* C3: once a call has returned an error, no later call reads a line or a
\* byte from either pipe, and none returns anything but an error.
C3_ErrorIsTerminal ==
  hist.erred => (last.result.kind \in {"Err", "Start"} /\ cycle = NoCycle)

\* C4: a call whose diagnostic read met the end of the diagnostic pipe (after
\* fewer than two recognized lines and any number of unrecognized ones) returns
\* None and has read no pixel byte.
C4_DiagnosticEofEndsCleanly ==
  last.cycle.eof = "diag"
    => /\ last.result = None
       /\ last.cycle.recognized < 2
       /\ last.cycle.bytes = 0

C4_Witness ==
  /\ last.cycle.eof = "diag"
  /\ last.cycle.recognized = 1
  /\ last.cycle.lines >= 2
  /\ last.result = None

\* C5: a call whose pixel read met the end of the pixel pipe with no byte of
\* the frame read returns None, as at the end of the diagnostic pipe.
C5_PixelEofAtBoundaryEndsCleanly ==
  (last.cycle.eof = "pix" /\ last.cycle.bytes = 0)
    => (last.result = None /\ last.result = AtDiagnosticEof)

C5_Witness ==
  /\ last.cycle.eof = "pix"
  /\ last.cycle.bytes = 0
  /\ last.cycle.recognized = 2
  /\ last.result = None

\* C6: a call that yields a frame has read exactly two recognized lines and
\* W*H*3 pixel bytes; after k calls that all yielded frames, 2k recognized
\* lines and k*W*H*3 pixel bytes are consumed, and the pixel pipe's read
\* cursor stands at k*W*H*3.
C6_Pacing ==
  /\ last.result.kind = "Frame"
       => (last.cycle.recognized = 2 /\ last.cycle.bytes = N)
  /\ (pc = "idle" /\ hist.clean)
       => /\ hist.recognized = 2 * Len(results)
          /\ hist.bytes = N * Len(results)
          /\ sub.bytes - Len(stdout) = N * Len(results)

C6_Witness ==
  /\ pc = "idle"
  /\ hist.clean
  /\ Len(results) = 2
  /\ N = 3
  /\ hist.bytes = 6

\* the i-th block of W*H*3 pixel bytes the subprocess wrote
Block(i) == [j \in 1..N |-> (i - 1) * N + j]

\* C7: with a well-formed subprocess, the i-th frame yielded holds the i-th
\* block of pixel bytes and the time of the i-th pair of showinfo lines (the
\* i-th frame's pts_time is i seconds); no more frames are yielded than decoded.
C7_FramesInOrder ==
  /\ Len(results) <= sub.frames
  /\ \A i \in 1..Len(results) :
       results[i] = Frame(Block(i), [secs |-> ToNat(i), nanos |-> 0])

C7_Witness ==
  /\ Len(results) = 2
  /\ N = 3
  /\ results[2].image = <<4, 5, 6>>
  /\ results[2].time_offset.secs = ToNat(2)

\* C18: whatever frame_rate and frames_count declare, the results of next()
\* are those the two pipes carry: the k-th frame is the k-th block of pixel
\* bytes with the k-th timestamp, and when the sequence ends every frame the
\* subprocess wrote has been yielded, be frames_count less or more.
C18_FramesCountIsAdvisory ==
  /\ \A k \in 1..Len(results) :
       /\ results[k].image = Block(k)
       /\ results[k].time_offset = [secs |-> ToNat(k), nanos |-> 0]
  /\ hist.ended => Len(results) = sub.frames

C18_Witness ==
  /\ hist.ended
  /\ primary_video_stream_info.frames_count = 1
  /\ N = 3
  /\ Len(results) = 2

\* the consumer waits for data the subprocess has not written
ReaderBlocked ==
  \/ pc = "diag" /\ stderr_buf = <<>> /\ stderr = <<>> /\ WriteEndOpen("stderr")
  \/ pc = "pix" /\ stdout = <<>> /\ WriteEndOpen("stdout")

\* the subprocess waits for room in the diagnostic pipe
WriterBlocked ==
  /\ child = "running"
  /\ sub.pending # <<>>
  /\ Len(stderr) >= DiagCap

\* C8: with a well-formed subprocess and bounded pipes, the consumer and the
\* subprocess are never both blocked.
C8_NoDeadlock == ~(ReaderBlocked /\ WriterBlocked)

\* C9: once the session is dropped, or exhausted, both handles are closed and
\* the decode subprocess has been reaped.
C9_SubprocessReclaimed ==
  (child # "none" /\ (pc = "dropped" \/ hist.ended)) => child = "reaped"

\* C20: once next() has returned None, at the end of the diagnostic pipe or
\* of the pixel pipe, no later call yields a Frame.
C20_ExhaustionIsStable ==
  hist.ended => last.result.kind # "Frame"

\* two calls have each read two recognized lines and met the end of the pixel
\* pipe: the first returned None, and so did the second
C20_Witness ==
  /\ hist.ended
  /\ ~hist.erred
  /\ pc = "idle"
  /\ results = <<>>
  /\ hist.recognized = 4
  /\ last.cycle.eof = "pix"
  /\ last.result = None

\* C17: a call starts its loop with an empty mapping, and the time_offset of
\* a yielded Frame is the pts_time of a line that the same call read: a call
\* whose own lines hold no pts_time yields no Frame.
C17_TimestampOfOwnCycle ==
  /\ (pc = "diag" /\ cycle.lines = 0) => infos = <<>>
  /\ last.result.kind = "Frame"
       => /\ last.cycle.own # <<>>
          /\ ParseF64(last.cycle.own).ok
          /\ last.result.time_offset = DurationFromSecsF64(ParseF64(last.cycle.own))

C17_Witness ==
  /\ Len(results) >= 1
  /\ results[1].time_offset = [secs |-> ToNat(1), nanos |-> 0]
  /\ last.cycle.recognized = 2
  /\ last.cycle.own = <<>>
  /\ last.result.kind # "Frame"

(***************************************************************************)
(* FFMpegVideo::open, step by step, and FFProbeInfo::primary_video_stream  *)
(* called on the FFProbeInfo it built.                                     *)
(***************************************************************************)
\* the paths open() is called with
Paths == {"a.mp4", "b.mp4"}

\* options.sampling_interval: none, or 0.5 s, 1 s, 1.5 s, 2 s
Intervals ==
  {NoneOpt, Some([secs |-> ToNat(0), nanos |-> 500000000]),
   Some([secs |-> ToNat(1), nanos |-> 0]), Some([secs |-> ToNat(1), nanos |-> 500000000]),
   Some([secs |-> ToNat(2), nanos |-> 0])}

\* format.duration in the output of the probing tool: a string
Durations == {<<"1">>, <<"-", "1">>, <<"N", "/", "A">>}

InitOpen ==
  /\ \E path \in Paths, ex \in BOOLEAN, pk \in BOOLEAN, rk \in BOOLEAN,
        jk \in BOOLEAN, dk \in BOOLEAN, raw \in SeqsUpTo(RawStreams, MaxStreams),
        iv \in Intervals, du \in Durations :
       opening = [pc |-> "start", video_path |-> path, file |-> "",
                  sampling_interval |-> iv, vf |-> <<>>,
                  exists |-> ex, probe_ok |-> pk, read_ok |-> rk,
                  json_ok |-> jk, duration |-> du,
                  raw |-> raw, decode_ok |-> dk, probe_spawned |-> FALSE,
                  decode_spawned |-> FALSE, error |-> "none", asked |-> FALSE,
                  primary |-> NoneOpt]
  /\ info = NoneOpt
  /\ primary_video_stream_info = NoneOpt
  /\ stderr = <<>>
  /\ stderr_buf = <<>>
  /\ stdout = <<>>
  /\ child = "none"
  /\ pc = "unopened"
  /\ infos = <<>>
  /\ lines_to_read = 0
  /\ time_seconds = NoTime
  /\ buffer = <<>>
  /\ results = <<>>
  /\ last = Pending
  /\ cycle = NoCycle
  /\ hist = [clean |-> TRUE, erred |-> FALSE, ended |-> FALSE,
             recognized |-> 0, bytes |-> 0]
  /\ sub = [lines |-> 0, bytes |-> 0, closed |-> {}]

Fail(e) == [opening EXCEPT !.pc = "failed", !.error = e]

PathUnchecked(o) == TRUE

\* ffprobe.rs line 99: input_video_path.exists()
PathExists(o) == o.exists

\* line 58, FFProbeInfo::of: FFProbeOutput::of (ffprobe.rs 95-133), then the
\* streams with a width and a height (ffprobe.rs 47-62)
OpenProbe ==
  /\ opening.pc = "start"
  /\ IF ~PathExists(opening)
       THEN /\ opening' = [Fail("FileDoesNotExistsError")
                             EXCEPT !.file = opening.video_path]
            /\ info' = info
     ELSE IF ~opening.probe_ok
       THEN opening' = Fail("CommandSpawnError") /\ info' = info
     ELSE IF ~opening.read_ok
       THEN /\ opening' = [Fail("IOError") EXCEPT !.probe_spawned = TRUE]
            /\ info' = info
     ELSE IF ~opening.json_ok \/ ~ParseF64(opening.duration).ok
       THEN \* serde_json::from_str is Err, be it for format.duration (utils.rs 13)
            /\ opening' = [Fail("ParseError") EXCEPT !.probe_spawned = TRUE]
            /\ info' = info
     ELSE IF DurationPanics(ParseF64(opening.duration))
       THEN \* ffprobe.rs line 48: Duration::from_secs_f64 aborts the call
            /\ opening' = [opening EXCEPT !.pc = "panicked", !.probe_spawned = TRUE]
            /\ info' = info
     ELSE /\ opening' = [opening EXCEPT !.pc = "probed", !.probe_spawned = TRUE]
          /\ info' = Some(FFProbeInfo(ParseF64(opening.duration), opening.raw))
  /\ UNCHANGED <<primary_video_stream_info, stderr, stderr_buf, stdout, child, pc, locals,
                 ghost, sub>>

\* lines 60-95: the decode subprocess is spawned, both pipes captured
OpenSpawn ==
  /\ opening.pc = "probed"
  /\ IF ~opening.decode_ok
       THEN /\ opening' = [Fail("CommandSpawnError")
                             EXCEPT !.vf = VfArgument(opening.sampling_interval)]
            /\ child' = child
       ELSE /\ opening' = [opening EXCEPT !.pc = "spawned", !.decode_spawned = TRUE,
                                          !.vf = VfArgument(opening.sampling_interval)]
            /\ child' = "running"
  /\ UNCHANGED <<info, primary_video_stream_info, stderr, stderr_buf, stdout, pc, locals,
                 ghost, sub>>

\* lines 97-107: the primary video stream, or ParseError; on the error the
\* Child and both handles are dropped, and nothing waits for the subprocess
OpenSelect ==
  /\ opening.pc = "spawned"
  /\ LET p == primary_video_stream(info.value.streams)
     IN  IF p.some
           THEN /\ opening' = [opening EXCEPT !.pc = "open", !.asked = TRUE,
                                              !.primary = p]
                /\ primary_video_stream_info' = p.value
                /\ pc' = "idle"
           ELSE /\ opening' = [Fail("ParseError") EXCEPT !.asked = TRUE, !.primary = p]
                /\ primary_video_stream_info' = primary_video_stream_info
                /\ pc' = "dropped"
  /\ UNCHANGED <<info, stderr, stderr_buf, stdout, child, locals, ghost, sub>>

\* a caller of FFProbeInfo::of asks for the primary video stream (&self)
AskPrimary ==
  /\ info.some
  /\ opening.pc = "probed"
  /\ opening' = [opening EXCEPT !.asked = TRUE,
                                !.primary = primary_video_stream(info.value.streams)]
  /\ UNCHANGED <<info, primary_video_stream_info, stderr, stderr_buf, stdout, child, pc,
                 locals, ghost, sub>>

NextOpen ==
  \/ OpenProbe
  \/ OpenSpawn
  \/ OpenSelect
  \/ AskPrimary
  \/ Drop
  \/ ProtoBrokenPipe

SpecOpen == InitOpen /\ [][NextOpen]_vars

\* C10: primary_video_stream() is None when the FFProbeInfo holds no video
\* stream or more than one, and the single one otherwise; the FFProbeInfo is
\* the one FFProbeInfo::of built, whatever the number of calls.
C10_PrimaryVideoStream ==
  opening.asked =>
    /\ info = Some(FFProbeInfo(ParseF64(opening.duration), opening.raw))
    /\ LET n == Len(info.value.streams)
       IN  /\ n = 1 => opening.primary = Some(info.value.streams[1].v)
           /\ n # 1 => opening.primary = NoneOpt

C10_Witness ==
  /\ opening.asked
  /\ Len(info.value.streams) = 2
  /\ opening.primary = NoneOpt

(***************************************************************************)
(* The session on the lines parse_showinfo tells apart: the loop of        *)
(* get_next (lines 127-142) reads each line the subprocess wrote and hands *)
(* it to parse_showinfo with the accumulator of the call; it returns at    *)
(* line 135 on a read error and at lines 136-138 at the end of the pipe.   *)
(***************************************************************************)
\* sub.written keeps the lines the subprocess has written, in their order
InitParse ==
  /\ InitSession
  /\ primary_video_stream_info.width = 1
  /\ sub = [lines |-> 0, bytes |-> 0, closed |-> {}, written |-> <<>>]

\* the subprocess writes a line.  read_line returns a line without its
\* newline only when the pipe has ended behind it (line 135): the subprocess
\* closes its end of the pipe with such a line, and none follows it
WriteParseLine(l) ==
  /\ WriteEndOpen("stderr")
  /\ pc # "dropped"
  /\ sub.lines < MaxParseLines
  /\ Len(stderr) < DiagCap
  /\ stderr' = Append(stderr, l)
  /\ sub' = [sub EXCEPT !.lines = @ + 1,
                        !.written = Append(@, l),
                        !.closed = IF l[Len(l)] = "\n" THEN @ ELSE @ \cup {"stderr"}]
  /\ UNCHANGED <<info, opening, primary_video_stream_info, stderr_buf, stdout, child, pc,
                 locals, ghost>>

\* the session of Next, its subprocess writing the lines of ParseLines and
\* no pixel: a call that has read its two lines waits in read_exact (line
\* 148) until the pixel pipe ends or the read fails
NextParse ==
  \/ Call
  \/ ReadLine
  \/ ReadPixels
  \/ ReadFails
  \/ Drop
  \/ \E l \in ParseLines : WriteParseLine(l)
  \/ \E e \in {"stderr", "stdout"} : ClosePipe(e)
  \/ ChildExit

SpecParse == InitParse /\ [][NextParse]_vars

\* the lines read_line has returned to the call of get_next that runs, in
\* their order: of the lines written, those that have left the pipe and the
\* BufReader, the last cycle.lines of them
CallLines ==
  LET read == Len(sub.written) - Len(stderr_buf) - Len(stderr)
  IN  SubSeq(sub.written, read - cycle.lines + 1, read)

\* the line begins with "[Parsed_showinfo_" and does not hold "] config"
RecognizedByRule(line) ==
  /\ Len(line) >= Len(ShowinfoTag)
  /\ \A k \in 1..Len(ShowinfoTag) : line[k] = ShowinfoTag[k]
  /\ ~\E k \in 0..(Len(line) - Len(ConfigMarker)) :
        \A j \in 1..Len(ConfigMarker) : line[k + j] = ConfigMarker[j]

\* the fields of one line: parse_showinfo on the line and an empty map
Fields(line) == ParseLine(line, <<>>).props

\* C15: parse_showinfo recognizes a line if and only if the line begins with
\* "[Parsed_showinfo_" and does not hold "] config"; a line it does not
\* recognize leaves the accumulator as it was and does not count toward the
\* two lines of the cycle, a line it recognizes counts as one.  Of the lines
\* the running call has read, those the rule names are the ones that were
\* counted, and until the second of them the accumulator holds what the first
\* of them alone gives, whatever other lines were read before or after it.
C15_RecognizedLines ==
  pc \in {"diag", "pix"} =>
    LET seen == SelectSeq(CallLines, RecognizedByRule)
    IN  /\ Len(CallLines) = cycle.lines
        /\ cycle.recognized = Len(seen)
        /\ lines_to_read = LinesPerFrame - Len(seen)
        /\ Len(seen) = 0 => infos = <<>>
        /\ Len(seen) = 1 => infos = Fields(seen[1])

\* a recognized line, then a line that begins with the tag and holds the
\* marker: the accumulator and the count are those of the first line
C15_Witness ==
  /\ pc = "diag"
  /\ CallLines = <<PtsLine(<<"1">>), LateConfigLine>>
  /\ cycle.recognized = 1
  /\ lines_to_read = 1
  /\ infos = Fields(PtsLine(<<"1">>))
  /\ infos # <<>>

\* C16: when the two recognized lines of a cycle are read, the accumulated
\* mapping holds every key of either line; a key of the later line has the
\* later line's value, a key of the earlier line alone has that line's value.
\* The mapping is there to look at after line 143, while the pixels are read.
C16_LaterLineWins ==
  pc = "pix" =>
    LET seen == SelectSeq(CallLines, RecognizedByRule)
    IN  /\ Len(seen) = LinesPerFrame
        /\ LET f1 == Fields(seen[1])
               f2 == Fields(seen[2])
           IN  /\ DOMAIN infos = DOMAIN f1 \cup DOMAIN f2
               /\ \A k \in DOMAIN infos :
                    infos[k] = IF k \in DOMAIN f2 THEN f2[k] ELSE f1[k]

C16_Witness ==
  /\ pc = "pix"
  /\ CallLines = <<PtsLine(<<"1">>), MeanLine>>
  /\ DOMAIN infos = {<<"n">>, PtsTimeKey, <<"m", "e", "a", "n">>}
  /\ infos[<<"n">>] = <<"5">>
  /\ infos[PtsTimeKey] = <<"1">>
  /\ infos[<<"m", "e", "a", "n">>] = <<"[", "2", " ", "3", "]">>

(***************************************************************************)
(* The size of a frame for every u32 width and height (lines 145-161).     *)
(* A u32 is four bytes, a 64-bit usize eight.  The subprocess writes no    *)
(* pixel here: it runs, and then it exits.                                 *)
(***************************************************************************)
\* an integer below 2^31 as a u32
U32Of(n) ==
  <<n % 256, (n \div 256) % 256, (n \div 65536) % 256, (n \div 16777216) % 256>>

\* u32 * u32: the low 32 bits, and whether the product needs more
MulU32(a, b) ==
  LET m == MulNat(a, b)
  IN  [value |-> [k \in 1..4 |-> Digit(m, k)], overflow |-> Len(Canon(m)) > 4]

\* line 146, i.width * i.height * 3 in u32: a build with overflow checks
\* (debug) panics at the multiplication that overflows, one without
\* (release) wraps
FrameBytesU32(i, build) ==
  LET wh  == MulU32(i.width, i.height)
      wh3 == MulU32(wh.value, U32Of(3))
  IN  IF build = "debug" /\ (wh.overflow \/ wh3.overflow)
        THEN [panic |-> TRUE]
        ELSE [panic |-> FALSE, len |-> wh3.value]

\* FrameBuffer::from_raw(width, height, buf) is Some: 3 * width * height,
\* computed in usize with checked_mul, does not overflow and is at most
\* buf.len()
FromRawFitsU32(width, height, len) ==
  LET needed == MulNat(MulNat(U32Of(3), width), height)
  IN  Len(Canon(needed)) <= 8 /\ LeqNat(needed, len)

\* widths and heights of the stream descriptor, u32::MAX the last of them
U32Values ==
  {U32Of(0), U32Of(1), U32Of(2), U32Of(1080), U32Of(1920), U32Of(37838),
   U32Of(65535), U32Of(65536), <<255, 255, 255, 255>>}

InitSize ==
  /\ \E w \in U32Values, h \in U32Values, b \in {"debug", "release"} :
       /\ primary_video_stream_info =
            [width |-> w, height |-> h, frame_rate |-> 25, frames_count |-> 1]
       /\ opening = [pc |-> "open", build |-> b]
  /\ info = NoneOpt
  /\ stderr = <<>>
  /\ stderr_buf = <<>>
  /\ stdout = <<>>
  /\ child = "running"
  /\ pc = "timed"
  /\ infos = <<>>
  /\ lines_to_read = 0
  /\ time_seconds = ParseF64(<<"1">>)
  /\ buffer = [len |-> <<>>, filled |-> FALSE]
  /\ results = <<>>
  /\ last = [result |-> [kind |-> "Start"]]
  /\ cycle = NoCycle
  /\ hist = [clean |-> TRUE, erred |-> FALSE, ended |-> FALSE,
             recognized |-> 0, bytes |-> 0]
  /\ sub = [lines |-> 0, bytes |-> 0, closed |-> {}]

\* lines 145-146: vec![0u8; (i.width * i.height * 3) as usize]
AllocBuffer ==
  /\ pc = "timed"
  /\ LET n == FrameBytesU32(primary_video_stream_info, opening.build)
     IN  IF n.panic
           THEN /\ pc' = "panicked"
                /\ last' = [result |-> Panic]
                /\ buffer' = buffer
           ELSE /\ pc' = "pix"
                /\ last' = last
                /\ buffer' = [len |-> n.len, filled |-> FALSE]
  /\ UNCHANGED <<opening, info, primary_video_stream_info, stderr, stderr_buf, stdout, child,
                 infos, lines_to_read, time_seconds, results, cycle, hist, sub>>

\* line 148: read_exact of an empty buffer returns Ok at once and reads
\* nothing.  A buffer that is not empty needs bytes of the pixel pipe: the
\* subprocess of this specification writes none, so that read_exact waits
\* for as long as the write end is open (no step), and then FillMeetsEof
FillBuffer ==
  /\ pc = "pix"
  /\ Canon(buffer.len) = <<>>
  /\ pc' = "raw"
  /\ buffer' = [buffer EXCEPT !.filled = TRUE]
  /\ UNCHANGED <<opening, info, primary_video_stream_info, stderr, stderr_buf, stdout, child,
                 infos, lines_to_read, time_seconds, results, last, cycle, hist, sub>>

\* lines 148-152: read_exact, the buffer not empty, meets the end of the
\* pixel pipe
FillMeetsEof ==
  /\ pc = "pix"
  /\ Canon(buffer.len) # <<>>
  /\ AtEnd(stdout, "stdout")
  /\ pc' = "idle"
  /\ last' = [result |-> AtPixelEof(0)]
  /\ UNCHANGED <<opening, info, primary_video_stream_info, stderr, stderr_buf, stdout, child,
                 infos, lines_to_read, time_seconds, buffer, results, cycle, hist, sub>>

\* lines 156-166: from_raw(..).expect(..), and the Frame
BuildImage ==
  /\ pc = "raw"
  /\ LET i == primary_video_stream_info
     IN  IF FromRawFitsU32(i.width, i.height, buffer.len)
           THEN /\ pc' = "idle"
                /\ last' = [result |-> Frame([width |-> i.width, height |-> i.height,
                                              len |-> buffer.len],
                                             DurationFromSecsF64(time_seconds))]
           ELSE /\ pc' = "panicked"
                /\ last' = [result |-> Panic]
  /\ UNCHANGED <<opening, info, primary_video_stream_info, stderr, stderr_buf, stdout, child,
                 infos, lines_to_read, time_seconds, buffer, results, cycle, hist, sub>>

NextSize ==
  \/ AllocBuffer
  \/ FillBuffer
  \/ FillMeetsEof
  \/ BuildImage
  \/ ChildExit

SpecSize == InitSize /\ [][NextSize]_vars

\* C14: for every u32 width W and height H, the pixel read requests exactly
\* the mathematical product W*H*3 bytes, and neither the multiplication nor
\* FrameBuffer::from_raw aborts the call.
C14_ExactByteCount ==
  LET i == primary_video_stream_info
  IN  /\ pc \in {"pix", "raw"}
           => Canon(buffer.len) = Canon(MulNat(MulNat(i.width, i.height), U32Of(3)))
      /\ last.result # Panic

\* C11: every VideoStreamInfo that FFProbeInfo::of admits has width > 0 and
\* height > 0, whatever the probe reported, and so the byte count of a frame
\* of an open session, W*H*3, is positive.
C11_AdmittedStreamsArePositive ==
  /\ info.some =>
       \A k \in 1..Len(info.value.streams) :
         info.value.streams[k].v.width > 0 /\ info.value.streams[k].v.height > 0
  /\ opening.pc = "open" => FrameBytes(primary_video_stream_info) > 0

\* C12: the decode subprocess is spawned only once open() has selected exactly
\* one primary video stream; with no video stream, or more than one, open()
\* fails and has spawned no decode subprocess.
C12_DecodeOnlyOnPrimaryStream ==
  /\ opening.decode_spawned
       => (opening.pc = "open" /\ opening.primary.some)
  /\ (opening.pc = "failed" /\ info.some
        /\ Len(VideoStreams(info.value.streams)) # 1)
       => ~opening.decode_spawned

\* the filters of a filter graph, as the decoding tool splits it
RECURSIVE SplitOn(_, _)
SplitOn(str, c) ==
  LET k == IndexOf(str, {c})
  IN  IF k = 0 THEN <<str>>
      ELSE <<SubSeq(str, 1, k - 1)>> \o SplitOn(SubSeq(str, k + 1, Len(str)), c)

\* the rate num/den of the filter "fps=num/den"
FpsRate(f) ==
  LET expr  == SubSeq(f, 5, Len(f))
      slash == IndexOf(expr, {"/"})
      num   == SubSeq(expr, 1, slash - 1)
      den   == SubSeq(expr, slash + 1, Len(expr))
  IN  IF StartsWith(f, <<"f", "p", "s", "=">>) /\ slash # 0
           /\ num # <<>> /\ den # <<>> /\ AllDigits(num) /\ AllDigits(den)
        THEN [ok |-> TRUE, num |-> DecimalValue(num), den |-> DecimalValue(den)]
        ELSE [ok |-> FALSE]

Millis(d) == ToInt(d.secs) * 1000 + d.nanos \div 1000000

\* C19: the filter graph handed to the decode subprocess ends with showinfo;
\* with a sampling interval, exactly one filter precedes it, fps, whose rate
\* is 1 divided by the interval in seconds (whole or not, a second or less);
\* without one the graph is showinfo alone.
C19_FilterGraph ==
  opening.decode_spawned =>
    LET fs == SplitOn(opening.vf, ",")
        iv == opening.sampling_interval
    IN  /\ fs[Len(fs)] = <<"s", "h", "o", "w", "i", "n", "f", "o">>
        /\ ~iv.some => Len(fs) = 1
        /\ iv.some =>
             /\ Len(fs) = 2
             /\ FpsRate(fs[1]).ok
             /\ FpsRate(fs[1]).den # 0
             /\ FpsRate(fs[1]).num * Millis(iv.value) = FpsRate(fs[1]).den * 1000

\* C13: when the path does not exist, FFProbeInfo::of and open() fail with
\* FileDoesNotExistsError carrying that path, and neither the probing tool nor
\* the decoding tool has been spawned.
C13_MissingSourceSpawnsNothing ==
  (~opening.exists /\ opening.pc # "start")
    => /\ opening.pc = "failed"
       /\ opening.error = "FileDoesNotExistsError"
       /\ opening.file = opening.video_path
       /\ ~opening.probe_spawned
       /\ ~opening.decode_spawned
       /\ child = "none"
       /\ info = NoneOpt

C13_Witness ==
  /\ ~opening.exists
  /\ opening.probe_ok
  /\ opening.decode_ok
  /\ opening.pc = "failed"
  /\ opening.video_path = "b.mp4"
  /\ opening.file = "b.mp4"

=============================================================================
